---------------------------- MODULE Spec2Model ----------------------------
(***************************************************************************)
(* A model of the flow engine (managers/base_manager.py) and of the        *)
(* knowledge base bootstrap (knowledge_base/knowledge_base.py with         *)
(* knowledge_base/embed_store.py).                                         *)
(*                                                                         *)
(* Python strings are sequences of one-character strings, so that the      *)
(* regular expressions, str.split, str.replace, str.lower and json.dumps   *)
(* are computed character by character.  A Python value is a record        *)
(*   [t |-> type tag, s |-> text, d |-> items]                             *)
(* where s is the str() text of a scalar and d the (key, value) pairs of   *)
(* a dict in insertion order (or the items of a list, with empty keys).    *)
(***************************************************************************)
EXTENDS Integers, Sequences, FiniteSets, TLC

VARIABLES
    \* ---- BaseManager: one manager object and the user-input file
    context,        \* self.context
    file,           \* the file at self.user_input_file_path: [exists, text]
    pc,             \* where run_flow is: idle, running, completed, aborted, raised, invalid
    sorted_steps,   \* run_flow's sorted_steps
    step_index,     \* the place of the for loop in sorted_steps (the next step)
    calls,          \* the assistant methods the run has invoked, in order
    last,           \* what the latest loop iteration did, and the context and file before it
    ctx_start,      \* self.context when run_flow was called
    config_steps,   \* manager_config['steps'] as run_flow was given them
    written,        \* the context the latest successful _save_user_input wrote, if any
    \* ---- _format_input applied to one input
    fmt_value, fmt_context, fmt_result, fmt_done,
    \* ---- find_manager applied to one input
    fm_managers, fm_input, fm_result, fm_done,
    \* ---- KnowledgeBase._populate, process run after process run
    kb_disk,        \* the faiss_index folder: [exists, ok, docs]
    kb_writable,    \* whether the folder can be written
    kb_sources,     \* config["knowledge_base"]["sources"]
    kb_store,       \* KnowledgeBase.store is set
    kb_index,       \* StoreBase.index: [none, docs]
    kb_pc,          \* where _populate is
    kb_src,         \* the place of the loop over sources
    kb_documents,   \* documents of the source being split
    kb_doc,         \* the place of the loop over documents
    kb_chunks,      \* all_chunks_to_add
    kb_log,         \* the calls the current populate run made, in order
    kb_run,         \* number of populate runs started
    kb_first,       \* how the first populate run ended and the index size it left
    st_kind,        \* which StoreBase: "embed_store" (embed_store.py) or "store" (store.py)
    st_attached,    \* KnowledgeBase.store is set
    st_index,       \* the store's index: [none, vectors, docs]
    st_calls,       \* number of calls made on the store
    st_last,        \* the latest call and what it returned
    \* ---- split_str_into_logical_chunks, call after call
    sp_client,      \* llm_apis.ollama_client is set
    sp_content,     \* file_content of the current call
    sp_pc,          \* where the call is: idle, awaiting (the Gateway), returned
    sp_requests,    \* the chat requests the current call made, in order
    sp_reply,       \* how the Gateway call ended, and the response text if any
    sp_result,      \* what the call returned
    sp_calls,       \* number of calls started
    \* ---- AskUserAssistant.gather_info over collect_parameter
    au_chain,       \* self.chain is set
    au_parameters,  \* the names of the parameters gather_info was given, in order
    au_pc,          \* where gather_info is: idle, analyzing, done, raised
    au_param,       \* the place of the loop over parameters
    au_history,     \* the current parameter's responses so far: analysis and confirmation
    au_returns,     \* what collect_parameter returned, call after call
    collected_data  \* gather_info's collected_data: name and value pairs

flowVars == <<context, file, pc, sorted_steps, step_index, calls, last, ctx_start,
              config_steps, written>>
fmtVars == <<fmt_value, fmt_context, fmt_result, fmt_done>>
fmVars == <<fm_managers, fm_input, fm_result, fm_done>>
kbVars == <<kb_disk, kb_writable, kb_sources, kb_store, kb_index, kb_pc, kb_src,
            kb_documents, kb_doc, kb_chunks, kb_log, kb_run, kb_first>>
stVars == <<st_kind, st_attached, st_index, st_calls, st_last>>
spVars == <<sp_client, sp_content, sp_pc, sp_requests, sp_reply, sp_result, sp_calls>>
auVars == <<au_chain, au_parameters, au_pc, au_param, au_history, au_returns, collected_data>>
vars == <<flowVars, fmtVars, fmVars, kbVars, stVars, spVars, auVars>>

-----------------------------------------------------------------------------
(***************************************************************************)
(* Bounds of the model.                                                    *)
(***************************************************************************)
MaxSteps == 2
MaxManagers == 2
MaxPopulateRuns == 2
MaxStoreCalls == 3
MaxK == 3

-----------------------------------------------------------------------------
(***************************************************************************)
(* Python values.                                                          *)
(***************************************************************************)
Str(s) == [t |-> "str", s |-> s, d |-> <<>>]
Num(digits) == [t |-> "int", s |-> digits, d |-> <<>>]
None == [t |-> "none", s |-> <<"N", "o", "n", "e">>, d |-> <<>>]
True == [t |-> "bool", s |-> <<"T", "r", "u", "e">>, d |-> <<>>]
False == [t |-> "bool", s |-> <<"F", "a", "l", "s", "e">>, d |-> <<>>]
Dict(pairs) == [t |-> "dict", s |-> <<>>, d |-> pairs]
List(items) == [t |-> "list", s |-> <<>>, d |-> [i \in 1..Len(items) |-> <<<<>>, items[i]>>]]
\* a pydantic BaseModel instance with the given fields
Model(pairs) == [t |-> "model", s |-> <<>>, d |-> pairs]

IsDict(v) == v.t = "dict"
IsList(v) == v.t = "list"
IsStr(v) == v.t = "str"

EmptyDict == Dict(<<>>)

\* key in d
HasKey(v, k) == \E i \in 1..Len(v.d) : v.d[i][1] = k
\* d[key]
Get(v, k) == v.d[CHOOSE i \in 1..Len(v.d) : v.d[i][1] = k][2]
Keys(v) == {v.d[i][1] : i \in 1..Len(v.d)}

\* d[key] = value: an existing key keeps its position, a new key is appended
SetItem(v, k, x) ==
    IF HasKey(v, k)
    THEN [v EXCEPT !.d = [i \in 1..Len(v.d) |-> IF v.d[i][1] = k THEN <<k, x>> ELSE v.d[i]]]
    ELSE [v EXCEPT !.d = Append(v.d, <<k, x>>)]

\* d.update(other): other's items are set one by one, in other's order
RECURSIVE UpdateFrom(_, _, _)
UpdateFrom(v, other, i) ==
    IF i > Len(other.d) THEN v
    ELSE UpdateFrom(SetItem(v, other.d[i][1], other.d[i][2]), other, i + 1)

DictUpdate(v, other) == UpdateFrom(v, other, 1)

-----------------------------------------------------------------------------
(***************************************************************************)
(* Python strings.                                                         *)
(***************************************************************************)
StartsWithAt(s, i, p) ==
    /\ i + Len(p) - 1 <= Len(s)
    /\ \A j \in 1..Len(p) : s[i + j - 1] = p[j]

\* s[i:j] with 1-based inclusive positions; empty when j < i
Slice(s, i, j) == [n \in 1..(j - i + 1) |-> s[i + n - 1]]

\* str.replace(old, new) for a non-empty old: leftmost occurrences, not overlapping
RECURSIVE ReplaceFrom(_, _, _, _)
ReplaceFrom(s, i, old, new) ==
    IF i > Len(s) THEN <<>>
    ELSE IF StartsWithAt(s, i, old) THEN new \o ReplaceFrom(s, i + Len(old), old, new)
    ELSE <<s[i]>> \o ReplaceFrom(s, i + 1, old, new)

Replace(s, old, new) == ReplaceFrom(s, 1, old, new)

\* str.split('.')
RECURSIVE SplitFrom(_, _, _)
SplitFrom(s, i, start) ==
    IF i > Len(s) THEN <<Slice(s, start, Len(s))>>
    ELSE IF s[i] = "." THEN <<Slice(s, start, i - 1)>> \o SplitFrom(s, i + 1, i + 1)
    ELSE SplitFrom(s, i + 1, start)

SplitDots(s) == SplitFrom(s, 1, 1)

UpperCase == <<"A", "B", "T", "F", "Y", "E", "S", "N", "O">>
LowerCase == <<"a", "b", "t", "f", "y", "e", "s", "n", "o">>
LowerChar(c) ==
    IF \E i \in 1..Len(UpperCase) : UpperCase[i] = c
    THEN LowerCase[CHOOSE i \in 1..Len(UpperCase) : UpperCase[i] = c]
    ELSE c
\* str.lower()
Lower(s) == [i \in 1..Len(s) |-> LowerChar(s[i])]
\* a in b
Contains(b, a) == \E i \in 1..(Len(b) + 1) : StartsWithAt(b, i, a)

-----------------------------------------------------------------------------
(***************************************************************************)
(* json.dumps / json.dump.                                                 *)
(***************************************************************************)
RECURSIVE Escape(_)
Escape(s) ==
    IF s = <<>> THEN <<>>
    ELSE LET c == Head(s)
             e == IF c = "\"" THEN <<"\\", "\"">>
                  ELSE IF c = "\\" THEN <<"\\", "\\">>
                  ELSE IF c = "\n" THEN <<"\\", "n">>
                  ELSE <<c>>
         IN e \o Escape(Tail(s))

Quote(s) == <<"\"">> \o Escape(s) \o <<"\"">>

RECURSIVE Spaces(_)
Spaces(n) == IF n <= 0 THEN <<>> ELSE <<" ">> \o Spaces(n - 1)

\* indent < 0 is indent=None: items separated by ", ", all on one line;
\* otherwise items separated by "," and each on its own line, indented
RECURSIVE JsonEncode(_, _, _)
RECURSIVE JsonItems(_, _, _, _)
JsonItems(v, i, indent, level) ==
    IF i > Len(v.d) THEN <<>>
    ELSE LET lead == IF indent < 0
                     THEN (IF i = 1 THEN <<>> ELSE <<",", " ">>)
                     ELSE (IF i = 1 THEN <<>> ELSE <<",">>) \o <<"\n">> \o Spaces(indent * level)
             key == IF IsDict(v) THEN Quote(v.d[i][1]) \o <<":", " ">> ELSE <<>>
         IN lead \o key \o JsonEncode(v.d[i][2], indent, level) \o JsonItems(v, i + 1, indent, level)

JsonEncode(v, indent, level) ==
    IF v.t = "str" THEN Quote(v.s)
    ELSE IF v.t = "int" THEN v.s
    ELSE IF v.t = "none" THEN <<"n", "u", "l", "l">>
    ELSE IF v.t = "bool" THEN Lower(v.s)
    ELSE LET open == IF IsDict(v) THEN <<"{">> ELSE <<"[">>
             close == IF IsDict(v) THEN <<"}">> ELSE <<"]">>
             tail == IF indent < 0 THEN <<>> ELSE <<"\n">> \o Spaces(indent * level)
         IN IF v.d = <<>> THEN open \o close
            ELSE open \o JsonItems(v, 1, indent, level + 1) \o tail \o close

\* json.dumps(value)
JsonDumps(v) == JsonEncode(v, -1, 0)
\* json.dump(value, f, indent=4)
JsonDumpIndent4(v) == JsonEncode(v, 4, 0)

-----------------------------------------------------------------------------
(***************************************************************************)
(* json.load: a parser of the JSON text.  A parse gives [ok, v, next]:     *)
(* whether a value was read, the value, and the position after it.         *)
(***************************************************************************)
ParseFailed == [ok |-> FALSE, v |-> None, next |-> 0]
Parsed(v, next) == [ok |-> TRUE, v |-> v, next |-> next]
CharAt(s, i) == IF i >= 1 /\ i <= Len(s) THEN s[i] ELSE ""
Whitespace == {" ", "\n", "\t", "\r"}
Digits == {"0", "1", "2", "3", "4", "5", "6", "7", "8", "9"}

RECURSIVE SkipWhitespace(_, _)
SkipWhitespace(s, i) ==
    IF CharAt(s, i) \in Whitespace THEN SkipWhitespace(s, i + 1) ELSE i

\* the characters of a string literal whose opening quote is before position i
RECURSIVE ParseStringBody(_, _, _)
ParseStringBody(s, i, acc) ==
    LET c == CharAt(s, i)
    IN IF c = "" \/ c = "\n" THEN ParseFailed
       ELSE IF c = "\"" THEN Parsed(Str(acc), i + 1)
       ELSE IF c = "\\"
            THEN LET e == CharAt(s, i + 1)
                 IN IF e = "\"" \/ e = "\\" THEN ParseStringBody(s, i + 2, Append(acc, e))
                    ELSE IF e = "n" THEN ParseStringBody(s, i + 2, Append(acc, "\n"))
                    ELSE ParseFailed
       ELSE ParseStringBody(s, i + 1, Append(acc, c))

RECURSIVE ParseDigits(_, _, _)
ParseDigits(s, i, acc) ==
    IF CharAt(s, i) \in Digits THEN ParseDigits(s, i + 1, Append(acc, s[i]))
    ELSE IF acc = <<>> \/ acc = <<"-">> THEN ParseFailed
    ELSE Parsed(Num(acc), i)

RECURSIVE ParseValue(_, _)
RECURSIVE ParseMembers(_, _, _)
RECURSIVE ParseElements(_, _, _)

\* the members of an object, the first of which starts at i
ParseMembers(s, i, acc) ==
    IF CharAt(s, i) # "\"" THEN ParseFailed
    ELSE LET key == ParseStringBody(s, i + 1, <<>>)
             colon == SkipWhitespace(s, key.next)
             val == ParseValue(s, colon + 1)
             after == SkipWhitespace(s, val.next)
             more == SetItem(acc, key.v.s, val.v)
         IN IF ~key.ok \/ CharAt(s, colon) # ":" THEN ParseFailed
            ELSE IF ~val.ok THEN ParseFailed
            ELSE IF CharAt(s, after) = "," THEN ParseMembers(s, SkipWhitespace(s, after + 1), more)
            ELSE IF CharAt(s, after) = "}" THEN Parsed(more, after + 1)
            ELSE ParseFailed

\* the elements of an array, the first of which starts at i
ParseElements(s, i, acc) ==
    LET val == ParseValue(s, i)
        after == SkipWhitespace(s, val.next)
        more == Append(acc, val.v)
    IN IF ~val.ok THEN ParseFailed
       ELSE IF CharAt(s, after) = "," THEN ParseElements(s, after + 1, more)
       ELSE IF CharAt(s, after) = "]" THEN Parsed(List(more), after + 1)
       ELSE ParseFailed

ParseValue(s, from) ==
    LET i == SkipWhitespace(s, from)
        c == CharAt(s, i)
    IN IF c = "{"
       THEN (IF CharAt(s, SkipWhitespace(s, i + 1)) = "}"
             THEN Parsed(EmptyDict, SkipWhitespace(s, i + 1) + 1)
             ELSE ParseMembers(s, SkipWhitespace(s, i + 1), EmptyDict))
       ELSE IF c = "["
       THEN (IF CharAt(s, SkipWhitespace(s, i + 1)) = "]"
             THEN Parsed(List(<<>>), SkipWhitespace(s, i + 1) + 1)
             ELSE ParseElements(s, i + 1, <<>>))
       ELSE IF c = "\"" THEN ParseStringBody(s, i + 1, <<>>)
       ELSE IF StartsWithAt(s, i, <<"n", "u", "l", "l">>) THEN Parsed(None, i + 4)
       ELSE IF StartsWithAt(s, i, <<"t", "r", "u", "e">>) THEN Parsed(True, i + 4)
       ELSE IF StartsWithAt(s, i, <<"f", "a", "l", "s", "e">>) THEN Parsed(False, i + 5)
       ELSE IF c = "-" THEN ParseDigits(s, i + 1, <<"-">>)
       ELSE ParseDigits(s, i, <<>>)

\* json.load(f): one value and nothing but whitespace after it, else JSONDecodeError
JsonLoad(text) ==
    LET r == ParseValue(text, 1)
    IN IF r.ok /\ SkipWhitespace(text, r.next) = Len(text) + 1 THEN r ELSE ParseFailed

-----------------------------------------------------------------------------
(***************************************************************************)
(* BaseManager: the pure helpers.                                          *)
(***************************************************************************)
PlaceholderOpen == <<"{", "{", "c", "o", "n", "t", "e", "x", "t", ".">>
PlaceholderClose == <<"}", "}">>
Placeholder(path) == PlaceholderOpen \o path \o PlaceholderClose

NoNewline(s, i, j) == \A n \in i..j : s[n] # "\n"

\* _get_nested_value(data_dict, path)
RECURSIVE WalkKeys(_, _, _)
WalkKeys(value, keys, i) ==
    IF i > Len(keys) THEN value
    ELSE IF IsDict(value) /\ HasKey(value, keys[i])
         THEN WalkKeys(Get(value, keys[i]), keys, i + 1)
         ELSE None

GetNestedValue(data_dict, path) == WalkKeys(data_dict, SplitDots(path), 1)

\* re.fullmatch(r"\{\{context\.(.*?)}}", value): the whole string has to match, so
\* the lazy group stretches to whatever lies between the first "{{context." and
\* the final "}}" ('.' matches every character but a newline)
FullMatches(value) ==
    /\ Len(value) >= Len(PlaceholderOpen) + Len(PlaceholderClose)
    /\ StartsWithAt(value, 1, PlaceholderOpen)
    /\ StartsWithAt(value, Len(value) - 1, PlaceholderClose)
    /\ NoNewline(value, Len(PlaceholderOpen) + 1, Len(value) - 2)
\* match.group(1)
FullMatchGroup(value) == Slice(value, Len(PlaceholderOpen) + 1, Len(value) - 2)

\* the end of the lazy match that starts at i: the position of the nearest "}}"
\* at or after i + 10 with no newline before it, or 0
MatchClose(s, i) ==
    LET from == i + Len(PlaceholderOpen)
        ends == {j \in from..(Len(s) - 1) :
                    /\ StartsWithAt(s, j, PlaceholderClose)
                    /\ NoNewline(s, from, j - 1)}
    IN IF StartsWithAt(s, i, PlaceholderOpen) /\ ends # {}
       THEN CHOOSE j \in ends : \A k \in ends : j <= k
       ELSE 0

\* re.findall(r"\{\{context\.(.*?)}}", value): the groups of the matches found
\* scanning from the left, each search resuming after the previous match
RECURSIVE FindAllFrom(_, _)
FindAllFrom(s, i) ==
    IF i > Len(s) THEN <<>>
    ELSE LET j == MatchClose(s, i)
         IN IF j = 0 THEN FindAllFrom(s, i + 1)
            ELSE <<Slice(s, i + Len(PlaceholderOpen), j - 1)>> \o FindAllFrom(s, j + 2)

FindAll(s) == FindAllFrom(s, 1)

\* the replacement text of an embedded placeholder (base_manager.py 86-89)
ReplacementText(retrieved_value) ==
    IF IsDict(retrieved_value) \/ IsList(retrieved_value)
    THEN JsonDumps(retrieved_value)
    ELSE retrieved_value.s

\* the loop over the placeholders of an embedded string (base_manager.py 80-91)
RECURSIVE SubstituteAll(_, _, _, _)
SubstituteAll(value, placeholders, i, ctx) ==
    IF i > Len(placeholders) THEN value
    ELSE LET retrieved_value == GetNestedValue(ctx, placeholders[i])
         IN IF retrieved_value # None
            THEN SubstituteAll(Replace(value, Placeholder(placeholders[i]),
                                       ReplacementText(retrieved_value)),
                               placeholders, i + 1, ctx)
            ELSE SubstituteAll(value, placeholders, i + 1, ctx)

\* a variant of _format_input on a string without its case 1: a whole-string
\* placeholder is substituted as text like an embedded one
FormatStringAlwaysText(value, ctx) == Str(SubstituteAll(value, FindAll(value), 1, ctx))

\* _format_input on a string (base_manager.py 69-92)
FormatString(value, ctx) ==
    IF FullMatches(value)
    THEN GetNestedValue(ctx, FullMatchGroup(value))
    ELSE Str(SubstituteAll(value, FindAll(value), 1, ctx))

\* _format_input(value, context)
RECURSIVE FormatInput(_, _)
FormatInput(value, ctx) ==
    IF IsStr(value) THEN FormatString(value.s, ctx)
    ELSE IF IsList(value) \/ IsDict(value)
         THEN [value EXCEPT !.d = [i \in 1..Len(value.d) |->
                                     <<value.d[i][1], FormatInput(value.d[i][2], ctx)>>]]
    ELSE value

\* find_manager's result: a manager, or None
NoManager == [none |-> TRUE, manager |-> [name |-> "", has_keywords |-> FALSE, keywords |-> <<>>]]
SomeManager(m) == [none |-> FALSE, manager |-> m]

\* manager.get('keywords', [])
KeywordsOf(manager) == IF manager.has_keywords THEN manager.keywords ELSE <<>>

\* a variant of the keyword test that compares the texts as they are
KeywordMatchesExactCase(keyword, user_input) == Contains(user_input, keyword)

\* keyword.lower() in user_input.lower()
KeywordMatches(keyword, user_input) == Contains(Lower(user_input), Lower(keyword))

\* find_manager(user_input) over self.managers
RECURSIVE FindManagerFrom(_, _, _)
FindManagerFrom(managers, i, user_input) ==
    IF i > Len(managers) THEN NoManager
    ELSE IF \E j \in 1..Len(KeywordsOf(managers[i])) :
                KeywordMatches(KeywordsOf(managers[i])[j], user_input)
         THEN SomeManager(managers[i])
         ELSE FindManagerFrom(managers, i + 1, user_input)

FindManager(managers, user_input) == FindManagerFrom(managers, 1, user_input)

-----------------------------------------------------------------------------
(***************************************************************************)
(* BaseManager: the user-input file, the registry and the parts of         *)
(* run_flow.                                                               *)
(***************************************************************************)
\* _load_user_input(): {} when the file is missing or does not parse
LoadUserInput(f) ==
    IF f.exists /\ JsonLoad(f.text).ok THEN JsonLoad(f.text).v ELSE EmptyDict

\* _save_user_input(): the file after the attempt.  open(..., 'w') may fail and
\* leave the file as it was; the write may fail after the file was truncated;
\* both are caught and logged
SaveOutcomes == {"ok", "open_failed", "write_failed"}
SaveUserInput(ctx, f, outcome) ==
    IF outcome = "ok" THEN [exists |-> TRUE, text |-> JsonDumpIndent4(ctx)]
    ELSE IF outcome = "write_failed" THEN [exists |-> TRUE, text |-> <<>>]
    ELSE f

\* the assistants dictionary built in main.py, with the callable attributes of
\* each assistant; any other attribute name is absent or not callable
RegisteredAssistants == {"ask_user", "code_generator", "file_helper"}
MethodsOf(assistant_name) ==
    IF assistant_name = "ask_user" THEN {"collect_parameter", "gather_info", "gather_list"}
    ELSE IF assistant_name = "code_generator" THEN {"generate", "_search_and_format_context"}
    ELSE IF assistant_name = "file_helper" THEN {"write_file", "read_file", "copy_file"}
    ELSE {}

\* self.assistants.get(assistant_name) is an assistant
HasAssistant(step) == step.assistant \in RegisteredAssistants
\* callable(getattr(assistant, method_name, None))
HasMethod(step) == step.method \in MethodsOf(step.assistant)

\* the sort key x.get('id', float('inf')): key(a) < key(b)
KeyLess(a, b) == a.has_id /\ (~b.has_id \/ a.id < b.id)

\* sorted() is stable: a step goes before the first step with a greater key
InsertStep(sorted, x) ==
    LET later == {i \in 1..Len(sorted) : KeyLess(x, sorted[i])}
        at == IF later = {} THEN Len(sorted) + 1 ELSE CHOOSE i \in later : \A k \in later : i <= k
    IN SubSeq(sorted, 1, at - 1) \o <<x>> \o SubSeq(sorted, at, Len(sorted))

RECURSIVE SortFrom(_, _, _)
SortFrom(steps, i, acc) ==
    IF i > Len(steps) THEN acc ELSE SortFrom(steps, i + 1, InsertStep(acc, steps[i]))

\* a variant that runs the steps in the order of the definition file
KeepFileOrder(steps) == steps

\* sorted(manager_config.get('steps', []), key=lambda x: x.get('id', float('inf')))
SortSteps(steps) == SortFrom(steps, 1, <<>>)

\* result.model_dump() for a pydantic model, the result itself otherwise
ResultToStore(result) == IF result.t = "model" THEN Dict(result.d) ELSE result

\* a variant that always sets the value
StoreResultReplacing(ctx, context_key, result_to_store) ==
    SetItem(ctx, context_key, result_to_store)

\* a variant that merges whenever the existing value is a dict
StoreResultIntoOldDict(ctx, context_key, result_to_store) ==
    IF HasKey(ctx, context_key) /\ IsDict(Get(ctx, context_key))
    THEN SetItem(ctx, context_key, DictUpdate(Get(ctx, context_key), result_to_store))
    ELSE SetItem(ctx, context_key, result_to_store)

\* base_manager.py 155-163: merge into an existing dict, or set the value
StoreResult(ctx, context_key, result_to_store) ==
    IF /\ HasKey(ctx, context_key)
       /\ IsDict(Get(ctx, context_key))
       /\ IsDict(result_to_store)
    THEN SetItem(ctx, context_key, DictUpdate(Get(ctx, context_key), result_to_store))
    ELSE SetItem(ctx, context_key, result_to_store)

\* base_manager.py 151-163: the loop over the step's outputs
RECURSIVE StoreOutputsFrom(_, _, _, _)
StoreOutputsFrom(ctx, outputs, i, result_to_store) ==
    IF i > Len(outputs) THEN ctx
    ELSE IF outputs[i][1] = "result"
         THEN StoreOutputsFrom(StoreResult(ctx, outputs[i][2], result_to_store),
                               outputs, i + 1, result_to_store)
         ELSE StoreOutputsFrom(ctx, outputs, i + 1, result_to_store)

\* a variant that leaves the return value out of the context
StoreOutputsNowhere(ctx, step, result_to_store) == ctx

\* a variant that stores under whatever the first outputs entry names
StoreOutputsUnderAnyKey(ctx, step, result_to_store) ==
    IF step.has_outputs /\ step.outputs # <<>>
    THEN StoreResult(ctx, step.outputs[1][2], result_to_store)
    ELSE ctx

StoreOutputs(ctx, step, result_to_store) ==
    IF step.has_outputs THEN StoreOutputsFrom(ctx, step.outputs, 1, result_to_store) ELSE ctx

\* a variant that saves before the step's output is stored
PersistBeforeStore(step, ctx_old, ctx_new, f, outcome) ==
    IF step.assistant = "ask_user" THEN SaveUserInput(ctx_old, f, outcome) ELSE f

\* base_manager.py 165-167: the file after a step of the given assistant
PersistAfterStep(step, ctx_old, ctx_new, f, outcome) ==
    IF step.assistant = "ask_user" THEN SaveUserInput(ctx_new, f, outcome) ELSE f

-----------------------------------------------------------------------------
(***************************************************************************)
(* Sample data: keys, contexts and input strings.                          *)
(***************************************************************************)
kA == <<"a">>
kB == <<"b">>
kS == <<"s">>
kL == <<"l">>
kK == <<"k">>
kZ == <<"z">>
PathKeys == {kA, kB, kS, kL, kK, kZ}

One == Num(<<"1">>)
Two == Num(<<"2">>)
Three == Num(<<"3">>)
Red == Str(<<"#", "F">>)
Light == Dict(<< <<kA, Red>>, <<kB, One>> >>)

\* {"s": {"l": {"a": "#F", "b": 1}}, "a": "x", "b": 2, "k": ["x", 1]}
CtxSchemes ==
    Dict(<< <<kS, Dict(<< <<kL, Light>> >>)>>, <<kA, Str(<<"x">>)>>, <<kB, Two>>,
            <<kK, List(<<Str(<<"x">>), One>>)>> >>)
\* {"s": "x", "a": {"b": 2}}
CtxFlat == Dict(<< <<kS, Str(<<"x">>)>>, <<kA, Dict(<< <<kB, Two>> >>)>> >>)

FmtContexts == {EmptyDict, CtxSchemes, CtxFlat}

\* '.'.join(keys)
RECURSIVE JoinDots(_)
JoinDots(keys) ==
    IF Len(keys) = 1 THEN keys[1]
    ELSE keys[1] \o <<".">> \o JoinDots(Tail(keys))

\* the dotted paths the inputs name: one to three keys
KeyPaths ==
    {<<k>> : k \in PathKeys}
        \cup {<<k1, k2>> : k1 \in {kS, kA}, k2 \in {kL, kB, kZ}}
        \cup {<<kS, kL, k>> : k \in {kA, kZ}}

Tokens == {Placeholder(JoinDots(keys)) : keys \in KeyPaths}
Prefixes == {<<"c", " ">>}
Separators == {<<>>, <<" ">>}

FmtStrings ==
    Tokens
        \cup {p \o t : p \in Prefixes, t \in Tokens}
        \cup {t \o p : p \in Prefixes, t \in Tokens}
        \cup {t1 \o m \o t2 : t1 \in Tokens, t2 \in Tokens, m \in Separators}
        \cup {p \o t1 \o t2 : p \in Prefixes, t1 \in Tokens, t2 \in Tokens}
        \cup {<<"c">>, <<"{", "{", "c", "}", "}">>}

FmtInputs ==
    {Str(x) : x \in FmtStrings}
        \cup {Dict(<< <<kA, Str(t)>>, <<kB, Str(p \o t)>> >>) : t \in Tokens, p \in Prefixes}
        \cup {List(<<Str(t), One>>) : t \in Tokens}
        \cup {One, None}

-----------------------------------------------------------------------------
(***************************************************************************)
(* The other components, at rest.                                          *)
(***************************************************************************)
NoFile == [exists |-> FALSE, text |-> <<>>]
NoIteration ==
    [kind |-> "none", pos |-> 0, result |-> None, save |-> "none",
     ctx_before |-> EmptyDict, file_before |-> NoFile]
NotWritten == [some |-> FALSE, ctx |-> EmptyDict]
FlowIdle ==
    /\ context = EmptyDict /\ file = NoFile /\ pc = "idle" /\ sorted_steps = <<>>
    /\ step_index = 1 /\ calls = <<>> /\ last = NoIteration /\ ctx_start = EmptyDict
    /\ config_steps = <<>> /\ written = NotWritten
FmtIdle == fmt_value = None /\ fmt_context = EmptyDict /\ fmt_result = None /\ fmt_done = FALSE
FmIdle == fm_managers = <<>> /\ fm_input = <<>> /\ fm_result = NoManager /\ fm_done = FALSE
NoCall ==
    [op |-> "none", k |-> 0, embedded |-> TRUE, unembedded |-> {}, documents |-> <<>>,
     raised |-> FALSE, result |-> <<>>,
     before |-> [none |-> TRUE, vectors |-> <<>>, docs |-> <<>>]]
StIdle ==
    /\ st_kind = "embed_store" /\ st_attached = FALSE
    /\ st_index = [none |-> TRUE, vectors |-> <<>>, docs |-> <<>>]
    /\ st_calls = 0 /\ st_last = NoCall
NoReply == [how |-> "none", json |-> FALSE, file_purpose |-> [state |-> "missing", s |-> <<>>],
            logical_units |-> [state |-> "missing", items |-> <<>>]]
SpIdle ==
    /\ sp_client = TRUE /\ sp_content = <<>> /\ sp_pc = "idle" /\ sp_requests = <<>>
    /\ sp_reply = NoReply
    /\ sp_result = [failed |-> TRUE, file_purpose |-> <<>>, units_none |-> FALSE,
                    logical_units |-> <<>>]
    /\ sp_calls = 0
AuIdle ==
    /\ au_chain = TRUE /\ au_parameters = <<>> /\ au_pc = "idle" /\ au_param = 1
    /\ au_history = <<>> /\ au_returns = <<>> /\ collected_data = <<>>
KbIdle ==
    /\ kb_disk = [exists |-> FALSE, ok |-> FALSE, docs |-> <<>>] /\ kb_writable = TRUE
    /\ kb_sources = <<>> /\ kb_store = FALSE /\ kb_index = [none |-> TRUE, docs |-> <<>>]
    /\ kb_pc = "idle" /\ kb_src = 1 /\ kb_documents = <<>> /\ kb_doc = 1
    /\ kb_chunks = <<>> /\ kb_log = <<>> /\ kb_run = 0
    /\ kb_first = [ended |-> "no", count |-> 0]

-----------------------------------------------------------------------------
(***************************************************************************)
(* _format_input applied to one input value and one context.               *)
(***************************************************************************)
FmtInit ==
    /\ fmt_value \in FmtInputs
    /\ fmt_context \in FmtContexts
    /\ fmt_result = None
    /\ fmt_done = FALSE
    /\ FlowIdle /\ FmIdle /\ KbIdle /\ StIdle /\ SpIdle /\ AuIdle

FormatInputCall ==
    /\ ~fmt_done
    /\ fmt_result' = FormatInput(fmt_value, fmt_context)
    /\ fmt_done' = TRUE
    /\ UNCHANGED <<fmt_value, fmt_context, flowVars, fmVars, kbVars, stVars, spVars, auVars>>

FmtNext == FormatInputCall

SpecFormat == FmtInit /\ [][FmtNext]_vars

-----------------------------------------------------------------------------
(***************************************************************************)
(* What the claims say about placeholders, stated without the code's       *)
(* regular expressions: a token is "{{context." + keys joined by "." +     *)
(* "}}", and its value is found by walking the keys.                       *)
(***************************************************************************)
RECURSIVE Resolves(_, _)
Resolves(v, keys) ==
    \/ keys = <<>>
    \/ /\ IsDict(v)
       /\ HasKey(v, Head(keys))
       /\ Resolves(Get(v, Head(keys)), Tail(keys))

RECURSIVE ValueAt(_, _)
ValueAt(v, keys) == IF keys = <<>> THEN v ELSE ValueAt(Get(v, Head(keys)), Tail(keys))

Token(keys) == Placeholder(JoinDots(keys))
TokensAt(s, i) == {keys \in KeyPaths : StartsWithAt(s, i, Token(keys))}
TokensIn(s) == UNION {TokensAt(s, i) : i \in 1..Len(s)}

\* the text a token stands for: JSON text of a mapping or sequence, str() of a scalar
TextOf(v) == IF IsDict(v) \/ IsList(v) THEN JsonDumps(v) ELSE v.s

\* s with every token replaced by the text of its value
RECURSIVE WithTokensReplaced(_, _, _)
WithTokensReplaced(s, i, ctx) ==
    IF i > Len(s) THEN <<>>
    ELSE IF TokensAt(s, i) # {}
         THEN LET keys == CHOOSE k \in TokensAt(s, i) : TRUE
              IN TextOf(ValueAt(ctx, keys)) \o WithTokensReplaced(s, i + Len(Token(keys)), ctx)
         ELSE <<s[i]>> \o WithTokensReplaced(s, i + 1, ctx)

\* C4: a string that is exactly one {{context.<dotted.path>}} resolves to the raw
\* value stored at that path, whatever its type (a mapping stays a mapping).
C4_WholePlaceholderGivesRawValue ==
    fmt_done =>
        \A keys \in KeyPaths :
            (fmt_value = Str(Token(keys)) /\ Resolves(fmt_context, keys))
                => fmt_result = ValueAt(fmt_context, keys)

C4_Witness ==
    /\ fmt_done
    /\ fmt_value = Str(Token(<<kS, kL>>))
    /\ fmt_context = CtxSchemes
    /\ fmt_result = Light

\* C5 (as claimed): a string that holds tokens as proper substrings resolves to
\* the same string with every token replaced by text (JSON text for a mapping or
\* sequence, str() for a scalar) and the surrounding text unchanged.
C5_EmbeddedTokensBecomeText ==
    (/\ fmt_done
     /\ IsStr(fmt_value)
     /\ TokensIn(fmt_value.s) # {}
     /\ \A keys \in TokensIn(fmt_value.s) :
            /\ fmt_value.s # Token(keys)
            /\ Resolves(fmt_context, keys)
            /\ ValueAt(fmt_context, keys) # None)
        => fmt_result = Str(WithTokensReplaced(fmt_value.s, 1, fmt_context))

\* C6 (as claimed): a token whose path is missing or runs into a non-mapping stays
\* in the resolved input as literal text, whether it is the whole string or a part.
C6_UnresolvedStaysLiteral ==
    (fmt_done /\ IsStr(fmt_value)) =>
        \A keys \in TokensIn(fmt_value.s) :
            ~Resolves(fmt_context, keys)
                => (IsStr(fmt_result) /\ Contains(fmt_result.s, Token(keys)))

-----------------------------------------------------------------------------
(***************************************************************************)
(* find_manager applied to one managers file and one user text.            *)
(***************************************************************************)
Letters == {"a", "A", "b", "B"}
ShortTexts == {<<>>} \cup {<<c>> : c \in Letters} \cup {<<c, e>> : c \in Letters, e \in Letters}
Keywords == {<<>>} \cup {<<c>> : c \in {"a", "A", "b"}} \cup {<<c, e>> : c \in {"a", "B"}, e \in {"b", "A"}}
KeywordLists ==
    {<<>>} \cup {<<k>> : k \in Keywords} \cup {<<<<"b", "b">>, <<"A">>>>, <<<<"B">>, <<"a", "b">>>>}
ManagerNames == <<"first", "second", "third", "fourth">>

\* the managers files: up to MaxManagers flows, named by their place in the file
ManagerFiles ==
    UNION {
        {[i \in 1..n |-> [name |-> ManagerNames[i], has_keywords |-> kws[i] # <<>> \/ i = 1,
                          keywords |-> kws[i]]] : kws \in [1..n -> KeywordLists]}
        : n \in 0..MaxManagers}

FmInit ==
    /\ fm_managers \in ManagerFiles
    /\ fm_input \in ShortTexts
    /\ fm_result = NoManager
    /\ fm_done = FALSE
    /\ FlowIdle /\ FmtIdle /\ KbIdle /\ StIdle /\ SpIdle /\ AuIdle

FindManagerCall ==
    /\ ~fm_done
    /\ fm_result' = FindManager(fm_managers, fm_input)
    /\ fm_done' = TRUE
    /\ UNCHANGED <<fm_managers, fm_input, flowVars, fmtVars, kbVars, stVars, spVars, auVars>>

FmNext == FindManagerCall

SpecFind == FmInit /\ [][FmNext]_vars

\* the same letter, in either case
SameLetter(c, e) ==
    \/ c = e
    \/ {c, e} \in {{"a", "A"}, {"b", "B"}}
\* keyword occurs in text when case is ignored
OccursIgnoringCase(keyword, text) ==
    \E off \in 0..(Len(text) - Len(keyword)) :
        \A n \in 1..Len(keyword) : SameLetter(keyword[n], text[off + n])
HasMatchingKeyword(m, text) ==
    m.has_keywords /\ \E j \in 1..Len(m.keywords) : OccursIgnoringCase(m.keywords[j], text)

\* C8: find_manager returns the first flow in file order one of whose keywords
\* occurs in the user text ignoring case, and None exactly when no flow has one.
C8_FirstMatchingManager ==
    fm_done =>
        LET hits == {i \in 1..Len(fm_managers) : HasMatchingKeyword(fm_managers[i], fm_input)}
        IN /\ fm_result.none <=> (hits = {})
           /\ hits # {} =>
                fm_result.manager = fm_managers[CHOOSE i \in hits : \A k \in hits : i <= k]

C8_Witness ==
    /\ fm_done
    /\ Len(fm_managers) = 2
    /\ HasMatchingKeyword(fm_managers[1], fm_input)
    /\ HasMatchingKeyword(fm_managers[2], fm_input)
    /\ fm_managers[1].keywords # fm_managers[2].keywords
    /\ ~Contains(fm_input, fm_managers[1].keywords[1])
    /\ fm_result = SomeManager(fm_managers[1])

-----------------------------------------------------------------------------
(***************************************************************************)
(* run_flow on one BaseManager.  A flow is a sequence of at most MaxSteps  *)
(* steps taken from StepTemplates in any order.                            *)
(***************************************************************************)
kU == <<"u">>
kG == <<"g">>
kP == <<"p">>

Step(has_id, id, assistant, method, inputs, has_outputs, outputs) ==
    [has_id |-> has_id, id |-> id, assistant |-> assistant, method |-> method,
     inputs |-> inputs, has_outputs |-> has_outputs, outputs |-> outputs]

ResultTo(k) == << <<"result", k>> >>

StepTemplates == {
    Step(TRUE, 1, "ask_user", "gather_info", EmptyDict, TRUE, ResultTo(kU)),
    Step(TRUE, 2, "code_generator", "generate",
         Dict(<< <<kP, Str(Placeholder(kU))>> >>), TRUE, ResultTo(kG)),
    Step(TRUE, 2, "code_generator", "generate",
         Dict(<< <<kP, Str(<<"c", " ">> \o Placeholder(kU \o <<".">> \o kB))>> >>),
         TRUE, ResultTo(kU)),
    Step(TRUE, 2, "ghost", "run", EmptyDict, TRUE, ResultTo(kG)),
    Step(TRUE, 1, "ask_user", "ask", EmptyDict, TRUE, ResultTo(kU)),
    Step(TRUE, 3, "ask_user", "gather_list", EmptyDict, FALSE, <<>>),
    Step(FALSE, 0, "file_helper", "write_file",
         Dict(<< <<kP, Str(Placeholder(kG))>> >>), TRUE, << <<"text", kG>> >>),
    Step(TRUE, 3, "code_generator", "knowledge_base", EmptyDict, TRUE, ResultTo(kG))
}

\* the flows run_flow is given
RECURSIVE StepSequences(_)
StepSequences(n) ==
    IF n = 0 THEN {<<>>}
    ELSE StepSequences(n - 1)
            \cup {Append(q, t) : q \in {x \in StepSequences(n - 1) : Len(x) = n - 1},
                                 t \in StepTemplates}

FlowConfigs == {[none |-> FALSE, steps |-> q] : q \in StepSequences(MaxSteps)}
NoConfig == [none |-> TRUE, steps |-> <<>>]

\* what an assistant method returns
Results == {
    Dict(<< <<kB, Two>> >>),
    Dict(<< <<kA, Three>>, <<kB, One>> >>),
    Str(<<"x">>),
    Model(<< <<kB, Two>> >>),
    None
}

\* the user-input file a manager finds when it is constructed
InitialFiles == {
    NoFile,
    [exists |-> TRUE, text |-> JsonDumpIndent4(Dict(<< <<kU, Dict(<< <<kA, One>> >>)>> >>))],
    [exists |-> TRUE, text |-> JsonDumpIndent4(Dict(<< <<kU, Str(<<"y">>)>>, <<kG, EmptyDict>> >>))],
    [exists |-> TRUE, text |-> <<"{">>]
}

\* BaseManager.__init__
FlowInit ==
    /\ file \in InitialFiles
    /\ context = LoadUserInput(file)
    /\ pc = "idle"
    /\ sorted_steps = <<>>
    /\ step_index = 1
    /\ calls = <<>>
    /\ last = NoIteration
    /\ ctx_start = EmptyDict
    /\ config_steps = <<>>
    /\ written = NotWritten
    /\ FmtIdle /\ FmIdle /\ KbIdle /\ StIdle /\ SpIdle /\ AuIdle

FlowOnly == UNCHANGED <<fmtVars, fmVars, kbVars, stVars, spVars, auVars>>

\* run_flow(manager_config), up to the for loop
RunFlow(manager_config) ==
    /\ pc = "idle"
    /\ IF manager_config.none
       THEN pc' = "invalid" /\ sorted_steps' = <<>>
       ELSE pc' = "running" /\ sorted_steps' = SortSteps(manager_config.steps)
    /\ step_index' = 1
    /\ calls' = <<>>
    /\ ctx_start' = context
    /\ config_steps' = manager_config.steps
    /\ UNCHANGED <<context, file, last, written>>
    /\ FlowOnly

Iteration(kind, result, save) ==
    [kind |-> kind, pos |-> step_index, result |-> result, save |-> save,
     ctx_before |-> context, file_before |-> file]

AtStep == pc = "running" /\ step_index <= Len(sorted_steps)

\* a variant that goes on to the next step when the assistant is missing
SkipMissingAssistant ==
    /\ AtStep
    /\ ~HasAssistant(sorted_steps[step_index])
    /\ step_index' = step_index + 1
    /\ last' = Iteration("aborted", None, "none")
    /\ UNCHANGED <<context, file, pc, sorted_steps, calls, ctx_start, config_steps,
                   written>>
    /\ FlowOnly

\* one loop iteration that finds no assistant under the step's name
AbortNoAssistant ==
    /\ AtStep
    /\ ~HasAssistant(sorted_steps[step_index])
    /\ pc' = "aborted"
    /\ last' = Iteration("aborted", None, "none")
    /\ UNCHANGED <<context, file, sorted_steps, step_index, calls, ctx_start, config_steps,
                   written>>
    /\ FlowOnly

\* a variant that restores the context the run started with
AbortNoMethodRollingBack ==
    /\ AtStep
    /\ HasAssistant(sorted_steps[step_index])
    /\ ~HasMethod(sorted_steps[step_index])
    /\ pc' = "aborted"
    /\ context' = ctx_start
    /\ last' = Iteration("aborted", None, "none")
    /\ UNCHANGED <<file, sorted_steps, step_index, calls, ctx_start, config_steps,
                   written>>
    /\ FlowOnly

\* one loop iteration that finds no callable method of the step's name
AbortNoMethod ==
    /\ AtStep
    /\ HasAssistant(sorted_steps[step_index])
    /\ ~HasMethod(sorted_steps[step_index])
    /\ pc' = "aborted"
    /\ last' = Iteration("aborted", None, "none")
    /\ UNCHANGED <<context, file, sorted_steps, step_index, calls, ctx_start, config_steps,
                   written>>
    /\ FlowOnly

Call(step, inputs, ctx_out, save, file_out) ==
    [pos |-> step_index, step |-> step, inputs |-> inputs, ctx_in |-> context,
     ctx_out |-> ctx_out, save |-> save, file_out |-> file_out]

\* one loop iteration whose method call returns: inputs resolved, method invoked,
\* result stored, context saved after an ask_user step
ExecuteStep ==
    /\ AtStep
    /\ HasAssistant(sorted_steps[step_index])
    /\ HasMethod(sorted_steps[step_index])
    /\ \E result \in Results, outcome \in SaveOutcomes :
        LET step == sorted_steps[step_index]
            inputs == FormatInput(step.inputs, context)
            result_to_store == ResultToStore(result)
            new_context == StoreOutputs(context, step, result_to_store)
            saved == step.assistant = "ask_user"
        IN /\ saved \/ outcome = "ok"
           /\ context' = new_context
           /\ file' = PersistAfterStep(step, context, new_context, file, outcome)
           /\ calls' = Append(calls, Call(step, inputs, new_context,
                                          IF saved THEN outcome ELSE "none", file'))
           /\ last' = Iteration("executed", result_to_store, IF saved THEN outcome ELSE "none")
           /\ written' = IF saved /\ outcome = "ok" THEN [some |-> TRUE, ctx |-> new_context]
                         ELSE IF saved /\ outcome = "write_failed" THEN NotWritten
                         ELSE written
    /\ step_index' = step_index + 1
    /\ UNCHANGED <<pc, sorted_steps, ctx_start, config_steps>>
    /\ FlowOnly

\* one loop iteration whose method call raises: run_flow ends with the exception
ExecuteStepRaises ==
    /\ AtStep
    /\ HasAssistant(sorted_steps[step_index])
    /\ HasMethod(sorted_steps[step_index])
    /\ LET step == sorted_steps[step_index]
       IN calls' = Append(calls, Call(step, FormatInput(step.inputs, context), context,
                                      "none", file))
    /\ pc' = "raised"
    /\ last' = Iteration("raised", None, "none")
    /\ UNCHANGED <<context, file, sorted_steps, step_index, ctx_start, config_steps,
                   written>>
    /\ FlowOnly

\* a variant that starts every manager with an empty context
ConstructEmpty ==
    /\ pc \in {"completed", "aborted", "raised", "invalid"}
    /\ context' = EmptyDict
    /\ pc' = "constructed"
    /\ sorted_steps' = <<>> /\ step_index' = 1 /\ calls' = <<>>
    /\ ctx_start' = EmptyDict /\ config_steps' = <<>>
    /\ last' = [NoIteration EXCEPT !.kind = "constructed"]
    /\ UNCHANGED <<file, written>>
    /\ FlowOnly

\* BaseManager.__init__ in the next process: the context is loaded from the file
\* the manager before it left.  What that manager then runs is what a manager
\* started on such a file runs (FlowInit).
Construct ==
    /\ pc \in {"completed", "aborted", "raised", "invalid"}
    /\ context' = LoadUserInput(file)
    /\ pc' = "constructed"
    /\ sorted_steps' = <<>> /\ step_index' = 1 /\ calls' = <<>>
    /\ ctx_start' = EmptyDict /\ config_steps' = <<>>
    /\ last' = [NoIteration EXCEPT !.kind = "constructed"]
    /\ UNCHANGED <<file, written>>
    /\ FlowOnly

\* a variant that leaves the loop after the first iteration
FinishFlowAfterFirstStep ==
    /\ pc = "running"
    /\ step_index > 1 \/ step_index > Len(sorted_steps)
    /\ pc' = "completed"
    /\ UNCHANGED <<context, file, sorted_steps, step_index, calls, last, ctx_start, config_steps,
                   written>>
    /\ FlowOnly

\* the end of the for loop
FinishFlow ==
    /\ pc = "running"
    /\ step_index > Len(sorted_steps)
    /\ pc' = "completed"
    /\ UNCHANGED <<context, file, sorted_steps, step_index, calls, last, ctx_start, config_steps,
                   written>>
    /\ FlowOnly

FlowNext ==
    \/ \E manager_config \in FlowConfigs \cup {NoConfig} : RunFlow(manager_config)
    \/ AbortNoAssistant
    \/ AbortNoMethod
    \/ ExecuteStep
    \/ ExecuteStepRaises
    \/ FinishFlow
    \/ Construct

Spec == FlowInit /\ [][FlowNext]_vars

\* run_flow is one coroutine: once called it goes from one loop iteration to the
\* next without waiting for anything but the assistant call, which is taken to
\* end (by returning or by raising).  Calling run_flow and constructing the next
\* manager are up to the caller.
FlowFairness ==
    /\ WF_vars(AbortNoAssistant)
    /\ WF_vars(AbortNoMethod)
    /\ WF_vars(ExecuteStep \/ ExecuteStepRaises)
    /\ WF_vars(FinishFlow)

\* the runs of one manager that starts without a file, over the flows whose steps
\* name the collector or an assistant that is not registered
FairConfigs ==
    {c \in FlowConfigs : \A i \in 1..Len(c.steps) : c.steps[i].assistant \in {"ask_user", "ghost"}}

FairInit == FlowInit /\ file = NoFile

FairNext ==
    \/ \E manager_config \in FairConfigs : RunFlow(manager_config)
    \/ AbortNoAssistant
    \/ AbortNoMethod
    \/ ExecuteStep
    \/ ExecuteStepRaises
    \/ FinishFlow

SpecFair == FairInit /\ [][FairNext]_vars /\ FlowFairness

\* run_flow called again on a manager whose earlier run is over: the context is
\* the one that run left
RunFlowAgain(manager_config) ==
    /\ pc \in {"completed", "aborted", "raised", "invalid"}
    /\ IF manager_config.none
       THEN pc' = "invalid" /\ sorted_steps' = <<>>
       ELSE pc' = "running" /\ sorted_steps' = SortSteps(manager_config.steps)
    /\ step_index' = 1
    /\ calls' = <<>>
    /\ ctx_start' = context
    /\ config_steps' = manager_config.steps
    /\ last' = NoIteration
    /\ UNCHANGED <<context, file, written>>
    /\ FlowOnly

\* the flows given to a manager that is used for several runs
GatherInfoStep == Step(TRUE, 1, "ask_user", "gather_info", EmptyDict, TRUE, ResultTo(kU))
GatherListStep == Step(TRUE, 3, "ask_user", "gather_list", EmptyDict, FALSE, <<>>)
WriteFileStep ==
    Step(FALSE, 0, "file_helper", "write_file",
         Dict(<< <<kP, Str(Placeholder(kG))>> >>), TRUE, << <<"text", kG>> >>)
NotCallableStep == Step(TRUE, 3, "code_generator", "knowledge_base", EmptyDict, TRUE, ResultTo(kG))
RepeatedConfigs ==
    {[none |-> FALSE, steps |-> q] :
        q \in { <<GatherInfoStep>>,
                <<GatherListStep, WriteFileStep>>,
                <<GatherInfoStep, NotCallableStep>>,
                <<WriteFileStep, GatherInfoStep>> }}

RepeatedNext ==
    \/ \E manager_config \in RepeatedConfigs \cup {NoConfig} : RunFlow(manager_config)
    \/ \E manager_config \in RepeatedConfigs \cup {NoConfig} : RunFlowAgain(manager_config)
    \/ AbortNoMethod
    \/ ExecuteStep
    \/ ExecuteStepRaises
    \/ FinishFlow

SpecRepeated == FairInit /\ [][RepeatedNext]_vars

-----------------------------------------------------------------------------
(***************************************************************************)
(* What the claims say about run_flow.                                     *)
(***************************************************************************)
\* the step names an assistant key or a method the registry does not have
Unregistered(step) ==
    \/ step.assistant \notin RegisteredAssistants
    \/ step.method \notin MethodsOf(step.assistant)

\* the place, in execution order, of the first such step (past the end if none)
FirstUnregistered ==
    LET bad == {p \in 1..Len(sorted_steps) : Unregistered(sorted_steps[p])}
    IN IF bad = {} THEN Len(sorted_steps) + 1 ELSE CHOOSE p \in bad : \A q \in bad : p <= q

\* the context after the last step that completed
ContextAfterLastCall == IF calls = <<>> THEN ctx_start ELSE calls[Len(calls)].ctx_out

\* C1: when a step names an unregistered assistant or a method the assistant lacks,
\* the run stops there: neither that step nor a later one is invoked, the run does
\* not complete, and the context is the one left by the last completed step.
C1_MissingRegistryEntryStopsRun ==
    /\ \A n \in 1..Len(calls) : calls[n].pos < FirstUnregistered
    /\ step_index <= FirstUnregistered
    /\ pc = "completed" => FirstUnregistered = Len(sorted_steps) + 1
    /\ pc = "aborted" =>
        /\ step_index = FirstUnregistered
        /\ Len(calls) = FirstUnregistered - 1
        /\ context = ContextAfterLastCall
        /\ context = last.ctx_before

C1_Witness ==
    /\ pc = "aborted"
    /\ Len(calls) = 1
    /\ ~HasAssistant(sorted_steps[step_index])
    /\ context # ctx_start
    /\ context = calls[1].ctx_out

\* the step the latest loop iteration was about, and the key its outputs give "result"
LastStep == sorted_steps[last.pos]
DeclaresResult(step) ==
    step.has_outputs /\ \E i \in 1..Len(step.outputs) : step.outputs[i][1] = "result"
ResultKey(step) == step.outputs[CHOOSE i \in 1..Len(step.outputs) : step.outputs[i][1] = "result"][2]
\* the context held a mapping under the key and the value to store is a mapping (a
\* pydantic model counts as the mapping model_dump() gives)
BothMappings ==
    /\ HasKey(last.ctx_before, ResultKey(LastStep))
    /\ Get(last.ctx_before, ResultKey(LastStep)).t = "dict"
    /\ last.result.t = "dict"

\* C2: a mapping returned under outputs {"result": K} is merged key by key into the
\* mapping the context holds under K: old keys stay (with the old value unless the
\* return value has the key), the return value's keys are added.
C2_MappingIsMergedShallowly ==
    (last.kind = "executed" /\ DeclaresResult(LastStep) /\ BothMappings) =>
        LET old == Get(last.ctx_before, ResultKey(LastStep))
            new == Get(context, ResultKey(LastStep))
        IN /\ new.t = "dict"
           /\ Keys(new) = Keys(old) \cup Keys(last.result)
           /\ \A k \in Keys(last.result) : Get(new, k) = Get(last.result, k)
           /\ \A k \in Keys(old) \ Keys(last.result) : Get(new, k) = Get(old, k)

C2_Witness ==
    /\ last.kind = "executed"
    /\ DeclaresResult(LastStep)
    /\ HasKey(last.ctx_before, ResultKey(LastStep))
    /\ Get(last.ctx_before, ResultKey(LastStep)) = Dict(<< <<kA, One>> >>)
    /\ last.result = Dict(<< <<kB, Two>> >>)
    /\ Get(context, ResultKey(LastStep)) = Dict(<< <<kA, One>>, <<kB, Two>> >>)

\* C3: in every other case (no value under K, a value that is no mapping, or a
\* return value that is no mapping) the context holds exactly the return value
\* under K afterwards, and no other key of the context changes.
C3_OtherValuesReplace ==
    (last.kind = "executed" /\ DeclaresResult(LastStep) /\ ~BothMappings) =>
        /\ HasKey(context, ResultKey(LastStep))
        /\ Get(context, ResultKey(LastStep)) = last.result
        /\ \A k \in (Keys(context) \cup Keys(last.ctx_before)) \ {ResultKey(LastStep)} :
                /\ HasKey(context, k)
                /\ HasKey(last.ctx_before, k)
                /\ Get(context, k) = Get(last.ctx_before, k)

C3_Witness ==
    /\ last.kind = "executed"
    /\ DeclaresResult(LastStep)
    /\ HasKey(last.ctx_before, ResultKey(LastStep))
    /\ Get(last.ctx_before, ResultKey(LastStep)) = Dict(<< <<kA, One>> >>)
    /\ last.result = Str(<<"x">>)
    /\ Get(context, ResultKey(LastStep)) = Str(<<"x">>)
    /\ Keys(context) = Keys(last.ctx_before)

\* C7: the steps are invoked in ascending order of id whatever their order in the
\* definition: no step is invoked after a step with a greater id, and each step is
\* invoked on the context the step before it left.
C7_StepsRunInIdOrder ==
    \A m \in 1..Len(calls), n \in 1..Len(calls) :
        m < n =>
            /\ ~(/\ calls[m].step.has_id
                 /\ calls[n].step.has_id
                 /\ calls[n].step.id < calls[m].step.id)
            /\ n = m + 1 => calls[n].ctx_in = calls[m].ctx_out

C7_Witness ==
    /\ pc = "completed"
    /\ Len(calls) = 2
    /\ Len(config_steps) = 2
    /\ config_steps[1].id = 2 /\ config_steps[2].id = 1
    /\ calls[1].step = config_steps[2]
    /\ calls[2].step = config_steps[1]
    /\ calls[2].ctx_in # ctx_start

\* C9 (as claimed): right after every completed ask_user step the file holds the
\* context with that step's output, and a step of another assistant writes nothing.
C9_EveryAskUserStepIsOnDisk ==
    last.kind = "executed" =>
        IF LastStep.assistant = "ask_user"
        THEN file = [exists |-> TRUE, text |-> JsonDumpIndent4(context)]
        ELSE file = last.file_before

\* C9 (amended): right after every completed ask_user step, and before the next
\* step, the engine writes the context with that step's output to the file; the
\* file holds it unless the write failed, and a failed write does not stop the run.
\* A step of another assistant, an aborting or a raising iteration writes nothing.
C9_WriteThroughUnlessWriteFails ==
    /\ last.kind = "executed" =>
        /\ step_index = last.pos + 1
        /\ pc \in {"running", "completed"}
        /\ IF LastStep.assistant = "ask_user"
           THEN /\ last.save \in SaveOutcomes
                /\ last.save = "ok" => file = [exists |-> TRUE, text |-> JsonDumpIndent4(context)]
                /\ last.save = "open_failed" => file = last.file_before
           ELSE file = last.file_before /\ last.save = "none"
    /\ last.kind \in {"aborted", "raised"} => file = last.file_before

C9_Witness ==
    /\ last.kind = "executed"
    /\ LastStep.assistant = "ask_user"
    /\ last.save = "ok"
    /\ context # last.ctx_before
    /\ pc = "running"
    /\ step_index = Len(sorted_steps)
    /\ JsonLoad(file.text).v = context

-----------------------------------------------------------------------------
(***************************************************************************)
(* KnowledgeBase._populate over StoreBase (embed_store.py), the loaders    *)
(* (load.py) and the splitter (split.py).  Texts are sequences of pieces.  *)
(***************************************************************************)
File(path, content, readable) == [path |-> path, content |-> content, readable |-> readable]
Source(http, files) == [http |-> http, files |-> files]
Record(content, path) == [content |-> content, path |-> path]

NoIndex == [none |-> TRUE, docs |-> <<>>]
Index(docs) == [none |-> FALSE, docs |-> docs]
\* len(self.store.index.docstore._dict), 0 without an index
Count(index) == IF index.none THEN 0 ELSE Len(index.docs)

NoFolder == [exists |-> FALSE, ok |-> FALSE, docs |-> <<>>]
BrokenFolder == [exists |-> TRUE, ok |-> FALSE, docs |-> <<>>]
Folder(docs) == [exists |-> TRUE, ok |-> TRUE, docs |-> docs]

\* a variant that never reads the folder
AsyncInitFresh(disk) == NoIndex

\* a variant that keeps an index object when the folder exists but does not load
AsyncInitKeepingBroken(disk) == IF disk.exists THEN Index(disk.docs) ELSE NoIndex

\* StoreBase._async_init: the saved index if the folder exists and loads, else None
AsyncInit(disk) == IF disk.exists /\ disk.ok THEN Index(disk.docs) ELSE NoIndex

\* load_from_local_path over the files with an allowed extension: every read_file
\* task opens the closure's full_path, which is the last such file once they run
LoadFromLocalPath(files) ==
    IF files = <<>> \/ ~files[Len(files)].readable
    THEN <<>>
    ELSE [i \in 1..Len(files) |->
            [path |-> files[i].path, content |-> files[Len(files)].content]]

\* load_from_github: nothing when the clone fails
LoadFromGithub(source, cloned) == IF cloned THEN LoadFromLocalPath(source.files) ELSE <<>>

\* what split_str_into_logical_chunks can return: None, or the dumped analysis
NoAnalysis == [failed |-> TRUE, file_purpose |-> <<>>, units_none |-> FALSE, logical_units |-> <<>>]
Analysis(purpose, units) ==
    [failed |-> FALSE, file_purpose |-> purpose, units_none |-> FALSE, logical_units |-> units]
AnalysisWithoutUnits(purpose) ==
    [failed |-> FALSE, file_purpose |-> purpose, units_none |-> TRUE, logical_units |-> <<>>]
Absent == [none |-> TRUE, s |-> <<>>]
Present(s) == [none |-> FALSE, s |-> s]
Unit(name, type, purpose) == [name |-> name, type |-> type, purpose |-> purpose]
\* a field inside an f-string
Shown(field) == IF field.none THEN <<"None">> ELSE field.s

\* knowledge_base.py 53-59: the record of one logical unit
UnitRecord(doc, unit) ==
    Record(<<"Unit Name: ">> \o Shown(unit.name) \o <<"\n", "Type: ">> \o Shown(unit.type)
               \o <<"\n", "Purpose: ">> \o Shown(unit.purpose),
           doc.path \o <<"#">> \o Shown(unit.name))

\* a variant that drops a file whose split failed
ChunksOfSplitFilesOnly(doc, structured_analysis) ==
    IF structured_analysis.failed
    THEN <<>>
    ELSE << Record(structured_analysis.file_purpose, doc.path) >>
         \o [i \in 1..Len(structured_analysis.logical_units) |->
                UnitRecord(doc, structured_analysis.logical_units[i])]

\* knowledge_base.py 40-60: the records one document adds to all_chunks_to_add
ChunksOf(doc, structured_analysis) ==
    IF structured_analysis.failed
    THEN IF doc.content # <<>> /\ doc.path # <<>>
         THEN << Record(doc.content, doc.path) >>
         ELSE <<>>
    ELSE << Record(structured_analysis.file_purpose, doc.path) >>
         \o [i \in 1..Len(structured_analysis.logical_units) |->
                UnitRecord(doc, structured_analysis.logical_units[i])]

Logged(op, arg) == [run |-> kb_run, op |-> op, arg |-> arg]

\* the run ends; the first run's end is remembered
EndRun(how, index) ==
    /\ kb_pc' = how
    /\ kb_first' = IF kb_run = 1 THEN [ended |-> how, count |-> Count(index)] ELSE kb_first

KbOnly == UNCHANGED <<flowVars, fmtVars, fmVars, stVars, spVars, auVars>>

FileA == File(<<"a.dart">>, <<"x">>, TRUE)
FileB == File(<<"b.dart">>, <<"y">>, TRUE)
FileBlank == File(<<"c.dart">>, <<>>, TRUE)
FileLocked == File(<<"d.dart">>, <<"z">>, FALSE)
KbSourceLists ==
    { <<>>,
      << Source(FALSE, <<FileA>>) >>,
      << Source(FALSE, <<FileA, FileB>>) >>,
      << Source(FALSE, <<>>) >>,
      << Source(FALSE, <<FileBlank>>) >>,
      << Source(FALSE, <<FileLocked>>) >>,
      << Source(TRUE, <<FileA>>) >>,
      << Source(FALSE, <<>>), Source(FALSE, <<FileB>>) >>,
      << Source(TRUE, <<FileA>>), Source(FALSE, <<FileB>>) >> }
KbFolders == { NoFolder, BrokenFolder, Folder(<< Record(<<"old">>, <<"o.dart">>) >>), Folder(<<>>) }
KbAnalyses ==
    { NoAnalysis,
      Analysis(<<"p">>, <<>>),
      Analysis(<<"p">>, << Unit(Present(<<"W">>), Present(<<"class">>), Present(<<"q">>)) >>),
      Analysis(<<>>, << Unit(Absent, Absent, Absent) >>),
      AnalysisWithoutUnits(<<"p">>) }

KbInit ==
    /\ kb_disk \in KbFolders
    /\ kb_writable \in BOOLEAN
    /\ kb_sources \in KbSourceLists
    /\ kb_store = FALSE /\ kb_index = NoIndex
    /\ kb_pc = "idle" /\ kb_src = 1 /\ kb_documents = <<>> /\ kb_doc = 1
    /\ kb_chunks = <<>> /\ kb_log = <<>> /\ kb_run = 0
    /\ kb_first = [ended |-> "no", count |-> 0]
    /\ FlowIdle /\ FmtIdle /\ FmIdle /\ StIdle /\ SpIdle /\ AuIdle

\* knowledge_base.py 16: self.store = await StoreBase.create(), at pre_heat()
CreateStore ==
    /\ kb_pc \in {"idle", "done", "raised"}
    /\ kb_run < MaxPopulateRuns
    /\ kb_run' = kb_run + 1
    /\ kb_store' = TRUE
    /\ kb_index' = AsyncInit(kb_disk)
    /\ kb_pc' = "created"
    /\ kb_src' = 1 /\ kb_doc' = 1 /\ kb_documents' = <<>> /\ kb_chunks' = <<>>
    /\ kb_log' = <<>>
    /\ UNCHANGED <<kb_disk, kb_writable, kb_sources, kb_first>>
    /\ KbOnly

\* knowledge_base.py 19-21: the store came from disk with documents in it
AlreadyPopulated ==
    /\ kb_pc = "created"
    /\ ~kb_index.none /\ Len(kb_index.docs) > 0
    /\ EndRun("done", kb_index)
    /\ UNCHANGED <<kb_disk, kb_writable, kb_sources, kb_store, kb_index, kb_src,
                   kb_documents, kb_doc, kb_chunks, kb_log, kb_run>>
    /\ KbOnly

\* knowledge_base.py 23-26: nothing to populate from
NoSources ==
    /\ kb_pc = "created"
    /\ ~(~kb_index.none /\ Len(kb_index.docs) > 0)
    /\ kb_sources = <<>>
    /\ EndRun("done", kb_index)
    /\ UNCHANGED <<kb_disk, kb_writable, kb_sources, kb_store, kb_index, kb_src,
                   kb_documents, kb_doc, kb_chunks, kb_log, kb_run>>
    /\ KbOnly

\* knowledge_base.py 28-29: ingestion begins
BeginIngest ==
    /\ kb_pc = "created"
    /\ ~(~kb_index.none /\ Len(kb_index.docs) > 0)
    /\ kb_sources # <<>>
    /\ kb_pc' = "loading"
    /\ UNCHANGED <<kb_disk, kb_writable, kb_sources, kb_store, kb_index, kb_src,
                   kb_documents, kb_doc, kb_chunks, kb_log, kb_run, kb_first>>
    /\ KbOnly

\* knowledge_base.py 31-33: the documents of the next source
LoadSource ==
    /\ kb_pc = "loading"
    /\ kb_src <= Len(kb_sources)
    /\ \E cloned \in BOOLEAN :
         LET source == kb_sources[kb_src]
         IN /\ (~source.http => cloned)
            /\ kb_documents' = IF source.http THEN LoadFromGithub(source, cloned)
                                              ELSE LoadFromLocalPath(source.files)
            /\ kb_log' = Append(kb_log, Logged("load",
                    [source |-> kb_src, cloned |-> cloned, documents |-> kb_documents']))
    /\ kb_doc' = 1
    /\ kb_pc' = "splitting"
    /\ UNCHANGED <<kb_disk, kb_writable, kb_sources, kb_store, kb_index, kb_src,
                   kb_chunks, kb_run, kb_first>>
    /\ KbOnly

\* knowledge_base.py 35-60: one document is split and its records collected
SplitDocument ==
    /\ kb_pc = "splitting"
    /\ kb_doc <= Len(kb_documents)
    /\ \E structured_analysis \in KbAnalyses :
         /\ ~structured_analysis.units_none
         /\ kb_chunks' = kb_chunks \o ChunksOf(kb_documents[kb_doc], structured_analysis)
         /\ kb_log' = Append(kb_log, Logged("split",
                [doc |-> kb_documents[kb_doc], analysis |-> structured_analysis,
                 before |-> Len(kb_chunks)]))
    /\ kb_doc' = kb_doc + 1
    /\ UNCHANGED <<kb_disk, kb_writable, kb_sources, kb_store, kb_index, kb_pc, kb_src,
                   kb_documents, kb_run, kb_first>>
    /\ KbOnly

\* knowledge_base.py 48-51: the analysis has logical_units None, the loop over it raises
SplitDocumentRaises ==
    /\ kb_pc = "splitting"
    /\ kb_doc <= Len(kb_documents)
    /\ \E structured_analysis \in KbAnalyses :
         /\ structured_analysis.units_none
         /\ kb_chunks' = kb_chunks
                \o << Record(structured_analysis.file_purpose, kb_documents[kb_doc].path) >>
         /\ kb_log' = Append(kb_log, Logged("split",
                [doc |-> kb_documents[kb_doc], analysis |-> structured_analysis,
                 before |-> Len(kb_chunks)]))
    /\ EndRun("raised", kb_index)
    /\ UNCHANGED <<kb_disk, kb_writable, kb_sources, kb_store, kb_index, kb_src,
                   kb_documents, kb_doc, kb_run>>
    /\ KbOnly

\* a variant that gives up when a source returned no documents
NextSourceUnlessEmpty ==
    /\ kb_pc = "splitting"
    /\ kb_doc > Len(kb_documents)
    /\ IF kb_documents = <<>>
       THEN EndRun("raised", kb_index) /\ UNCHANGED kb_src
       ELSE kb_src' = kb_src + 1 /\ kb_pc' = "loading" /\ UNCHANGED kb_first
    /\ UNCHANGED <<kb_disk, kb_writable, kb_sources, kb_store, kb_index,
                   kb_documents, kb_doc, kb_chunks, kb_log, kb_run>>
    /\ KbOnly

\* knowledge_base.py 31: the loop goes on to the next source
NextSource ==
    /\ kb_pc = "splitting"
    /\ kb_doc > Len(kb_documents)
    /\ kb_src' = kb_src + 1
    /\ kb_pc' = "loading"
    /\ UNCHANGED <<kb_disk, kb_writable, kb_sources, kb_store, kb_index,
                   kb_documents, kb_doc, kb_chunks, kb_log, kb_run, kb_first>>
    /\ KbOnly

\* a variant that adds and saves once the last source is reached, before loading it
AddDocumentsBeforeLastSource ==
    /\ kb_pc = "loading"
    /\ kb_src >= Len(kb_sources)
    /\ kb_chunks # <<>>
    /\ kb_log' = kb_log \o
            << Logged("add", [documents |-> kb_chunks, unembedded |-> {}]),
               Logged("save", kb_writable) >>
    /\ kb_index' = Index(kb_index.docs \o kb_chunks)
    /\ IF kb_writable
       THEN kb_disk' = Folder(kb_index'.docs) /\ EndRun("done", kb_index')
       ELSE UNCHANGED kb_disk /\ EndRun("raised", kb_index')
    /\ UNCHANGED <<kb_writable, kb_sources, kb_store, kb_src, kb_documents, kb_doc,
                   kb_chunks, kb_run>>
    /\ KbOnly

\* knowledge_base.py 63-66 with StoreBase.add_documents and StoreBase.save: the
\* batch is embedded by one FAISS.from_documents / aadd_documents call, which
\* raises if the embedding request of any record fails; then the index is
\* written (or the write raises); neither call is guarded
AddDocumentsAndSave ==
    /\ kb_pc = "loading"
    /\ kb_src > Len(kb_sources)
    /\ kb_chunks # <<>>
    /\ \E unembedded \in {{}} \cup {{i} : i \in 1..Len(kb_chunks)} :
         IF unembedded # {}
         THEN /\ kb_log' = Append(kb_log,
                    Logged("add", [documents |-> kb_chunks, unembedded |-> unembedded]))
              /\ EndRun("raised", kb_index)
              /\ UNCHANGED <<kb_index, kb_disk>>
         ELSE /\ kb_log' = kb_log \o
                    << Logged("add", [documents |-> kb_chunks, unembedded |-> {}]),
                       Logged("save", kb_writable) >>
              /\ kb_index' = Index(kb_index.docs \o kb_chunks)
              /\ IF kb_writable
                 THEN kb_disk' = Folder(kb_index'.docs) /\ EndRun("done", kb_index')
                 ELSE UNCHANGED kb_disk /\ EndRun("raised", kb_index')
    /\ UNCHANGED <<kb_writable, kb_sources, kb_store, kb_src, kb_documents, kb_doc,
                   kb_chunks, kb_run>>
    /\ KbOnly

\* knowledge_base.py 67-68: no records were collected
NoChunks ==
    /\ kb_pc = "loading"
    /\ kb_src > Len(kb_sources)
    /\ kb_chunks = <<>>
    /\ EndRun("done", kb_index)
    /\ UNCHANGED <<kb_disk, kb_writable, kb_sources, kb_store, kb_index, kb_src,
                   kb_documents, kb_doc, kb_chunks, kb_log, kb_run>>
    /\ KbOnly

\* a variant in which the instance is handed out as soon as its store exists
SearchWhilePopulating ==
    /\ kb_store
    /\ kb_pc \in {"created", "loading", "splitting", "done"}
    /\ \A n \in 1..Len(kb_log) : kb_log[n].op # "search"
    /\ kb_log' = Append(kb_log, Logged("search", kb_index))
    /\ UNCHANGED <<kb_disk, kb_writable, kb_sources, kb_store, kb_index, kb_pc, kb_src,
                   kb_documents, kb_doc, kb_chunks, kb_run, kb_first>>
    /\ KbOnly

\* knowledge_base.py 70-75 on the instance pre_heat returned (84-89): pre_heat
\* awaits _populate before its return, and nothing else holds the instance before
\* that; a pre_heat that raised returned none.  The first search is recorded
\* with the index it ran on.
SearchAfterPreHeat ==
    /\ kb_store
    /\ kb_pc = "done"
    /\ \A n \in 1..Len(kb_log) : kb_log[n].op # "search"
    /\ kb_log' = Append(kb_log, Logged("search", kb_index))
    /\ UNCHANGED <<kb_disk, kb_writable, kb_sources, kb_store, kb_index, kb_pc, kb_src,
                   kb_documents, kb_doc, kb_chunks, kb_run, kb_first>>
    /\ KbOnly

KbNext ==
    \/ CreateStore
    \/ AlreadyPopulated
    \/ NoSources
    \/ BeginIngest
    \/ LoadSource
    \/ SplitDocument
    \/ SplitDocumentRaises
    \/ NextSource
    \/ AddDocumentsAndSave
    \/ NoChunks
    \/ SearchAfterPreHeat

SpecKB == KbInit /\ [][KbNext]_vars

(***************************************************************************)
(* What the claims say about populate.                                     *)
(***************************************************************************)
\* the calls a run made to a source loader, the splitter or add_documents
IngestCalls(run) ==
    {n \in 1..Len(kb_log) : kb_log[n].run = run /\ kb_log[n].op \in {"load", "split", "add"}}

\* C10 (as claimed): with a writable folder, a populate run after a completed first
\* run calls no source loader, no splitter and no add_documents, and leaves as
\* many indexed documents as the first run did.
C10_SecondRunIngestsNothing ==
    (kb_run >= 2 /\ kb_first.ended = "done" /\ kb_writable) =>
        /\ \A run \in 2..kb_run : IngestCalls(run) = {}
        /\ kb_pc \in {"done", "raised"} => Count(kb_index) = kb_first.count

\* C10 (amended): with a writable folder, a populate run after a completed first
\* run that left at least one indexed document loads the saved index and
\* short-circuits: it calls no source loader, no splitter and no add_documents,
\* and it ends with as many indexed documents as the first run left.
C10_SecondRunShortCircuitsOnSavedIndex ==
    (kb_run >= 2 /\ kb_first.ended = "done" /\ kb_writable /\ kb_first.count > 0) =>
        /\ \A run \in 2..kb_run : IngestCalls(run) = {}
        /\ kb_pc \in {"created", "done"}
        /\ kb_index = Index(kb_disk.docs)
        /\ Count(kb_index) = kb_first.count

C10_Witness ==
    /\ kb_run = 2
    /\ kb_pc = "done"
    /\ kb_writable
    /\ kb_first.ended = "done"
    /\ kb_log = <<>>
    /\ kb_first.count = 2
    /\ Count(kb_index) = 2

\* the splitter calls of the current run, and the records each one added to the batch
SplitCalls == {n \in 1..Len(kb_log) : kb_log[n].run = kb_run /\ kb_log[n].op = "split"}
RecordsUpTo(n) ==
    LET later == {m \in SplitCalls : m > n}
    IN IF later = {} THEN Len(kb_chunks)
       ELSE kb_log[CHOOSE m \in later : \A q \in later : m <= q].arg.before
RecordsOf(n) == SubSeq(kb_chunks, kb_log[n].arg.before + 1, RecordsUpTo(n))

\* C11 (as claimed): every loaded file whose split fails adds exactly one record,
\* with the file's whole content and its path.
C11_FailedSplitStoresWholeFile ==
    \A n \in SplitCalls :
        kb_log[n].arg.analysis.failed =>
            RecordsOf(n) = << Record(kb_log[n].arg.doc.content, kb_log[n].arg.doc.path) >>

\* C11 (amended): a loaded file whose split fails adds exactly one record, with the
\* file's whole content and its path, when the content is not empty; a file with
\* empty content whose split fails adds no record.  Unit-level records are never
\* added for it.
C11_FailedSplitStoresWholeFileUnlessEmpty ==
    \A n \in SplitCalls :
        kb_log[n].arg.analysis.failed =>
            IF kb_log[n].arg.doc.content # <<>>
            THEN RecordsOf(n) = << Record(kb_log[n].arg.doc.content, kb_log[n].arg.doc.path) >>
            ELSE RecordsOf(n) = <<>>

C11_Witness ==
    \E n \in SplitCalls :
        /\ kb_log[n].arg.analysis.failed
        /\ kb_log[n].arg.doc.content = <<"x">>
        /\ RecordsOf(n) = << Record(<<"x">>, <<"a.dart">>) >>
        /\ kb_pc = "done"
        /\ kb_index = Index(<< Record(<<"x">>, <<"a.dart">>) >>)

\* the text a null field has inside a formatted summary
FieldText(field) == IF field.none THEN <<"None">> ELSE field.s
\* the formatted name/kind/purpose summary of a logical unit, and its path
UnitSummary(unit) ==
    <<"Unit Name: ">> \o FieldText(unit.name) \o <<"\n", "Type: ">> \o FieldText(unit.type)
        \o <<"\n", "Purpose: ">> \o FieldText(unit.purpose)
UnitPath(doc, unit) == doc.path \o <<"#">> \o FieldText(unit.name)
\* the number of logical units of a validated analysis (none for a null list)
UnitCount(analysis) == IF analysis.units_none THEN 0 ELSE Len(analysis.logical_units)

\* C13: every file whose split succeeds with n logical units adds exactly 1 + n
\* records to the batch, the file-purpose record under the file's path and then one
\* per unit under path#name with the formatted summary, and populate goes on; this
\* for every analysis the schema accepts, a null or empty unit list included.
C13_SplitFileGivesOnePlusUnits ==
    \A n \in SplitCalls :
        ~kb_log[n].arg.analysis.failed =>
            LET doc == kb_log[n].arg.doc
                analysis == kb_log[n].arg.analysis
                records == RecordsOf(n)
            IN /\ Len(records) = 1 + UnitCount(analysis)
               /\ records[1] = Record(analysis.file_purpose, doc.path)
               /\ \A i \in 1..UnitCount(analysis) :
                    records[i + 1] = Record(UnitSummary(analysis.logical_units[i]),
                                            UnitPath(doc, analysis.logical_units[i]))
               /\ ~(kb_pc = "raised" /\ n = Len(kb_log))

\* the same for the analyses whose unit list is a list
C13_HoldsForUnitLists ==
    \A n \in SplitCalls :
        (~kb_log[n].arg.analysis.failed /\ ~kb_log[n].arg.analysis.units_none) =>
            LET doc == kb_log[n].arg.doc
                analysis == kb_log[n].arg.analysis
                records == RecordsOf(n)
            IN /\ Len(records) = 1 + UnitCount(analysis)
               /\ records[1] = Record(analysis.file_purpose, doc.path)
               /\ \A i \in 1..UnitCount(analysis) :
                    records[i + 1] = Record(UnitSummary(analysis.logical_units[i]),
                                            UnitPath(doc, analysis.logical_units[i]))
               /\ ~(kb_pc = "raised" /\ n = Len(kb_log))

\* the loader, add_documents and save calls of the current run
LoadCalls == {n \in 1..Len(kb_log) : kb_log[n].run = kb_run /\ kb_log[n].op = "load"}
AddCalls == {n \in 1..Len(kb_log) : kb_log[n].run = kb_run /\ kb_log[n].op = "add"}
SaveCalls == {n \in 1..Len(kb_log) : kb_log[n].run = kb_run /\ kb_log[n].op = "save"}
\* the splitter calls made for the documents of one loader call
SplitsAfterLoad(l) ==
    {n \in SplitCalls : n > l /\ \A m \in LoadCalls : m > l => n < m}

\* C14: in a populate run add_documents is called at most once, after every source
\* was loaded and every loaded file split, with all collected records in the one
\* batch; save is called only right after that add_documents call returned; a run
\* that collected no record calls neither.
C14_OneBatchThenSave ==
    /\ Cardinality(AddCalls) <= 1
    /\ Cardinality(SaveCalls) <= 1
    /\ \A a \in AddCalls :
        /\ \A n \in LoadCalls \cup SplitCalls : n < a
        /\ Cardinality(LoadCalls) = Len(kb_sources)
        /\ \A l \in LoadCalls : Cardinality(SplitsAfterLoad(l)) = Len(kb_log[l].arg.documents)
        /\ kb_log[a].arg.documents = kb_chunks
        /\ kb_chunks # <<>>
        /\ kb_log[a].arg.unembedded = {} => a + 1 \in SaveCalls
    /\ \A v \in SaveCalls : v - 1 \in AddCalls /\ kb_log[v - 1].arg.unembedded = {}
    /\ (kb_pc = "done" /\ kb_chunks = <<>>) => AddCalls = {} /\ SaveCalls = {}

C14_Witness ==
    /\ kb_pc = "done"
    /\ Len(kb_sources) = 2
    /\ Cardinality(LoadCalls) = 2
    /\ Cardinality(SplitCalls) = 2
    /\ \E a \in AddCalls :
        /\ a + 1 \in SaveCalls
        /\ \E i, j \in 1..Len(kb_log[a].arg.documents) :
            /\ kb_log[a].arg.documents[i].path = <<"a.dart">>
            /\ kb_log[a].arg.documents[j].path = <<"b.dart">>
    /\ kb_disk = Folder(kb_chunks)

\* the loader call found nothing to read: the clone failed, the directory is
\* missing or empty, or the file read failed
FailedLoad(l) ==
    LET source == kb_sources[kb_log[l].arg.source]
    IN \/ source.http /\ ~kb_log[l].arg.cloned
       \/ source.files = <<>>
       \/ ~source.files[Len(source.files)].readable

-----------------------------------------------------------------------------
(***************************************************************************)
(* The two vector stores: StoreBase of embed_store.py (LangChain FAISS,    *)
(* reached through KnowledgeBase) and StoreBase of store.py (faiss index   *)
(* with a parallel document list).  A vector is a number, the distance of  *)
(* two vectors their difference.                                           *)
(***************************************************************************)
StNoIndex == [none |-> TRUE, vectors |-> <<>>, docs |-> <<>>]
StIndex(vectors, docs) == [none |-> FALSE, vectors |-> vectors, docs |-> docs]
\* index.ntotal
NTotal(index) == Len(index.vectors)

\* the embedding the model gives a text
Embedding(text) ==
    CASE text = <<"x">> -> 1
      [] text = <<"y">> -> 4
      [] text = <<"z">> -> 6
      [] OTHER -> 0
Distance(v, w) == IF v > w THEN v - w ELSE w - v

\* faiss index.search(vector, k): the positions of the k nearest vectors, nearest
\* first, padded with -1 when the index holds fewer than k
IndexSearch(index, vector, k) ==
    LET n == NTotal(index)
        Closer(i, j) ==
            \/ Distance(index.vectors[i], vector) < Distance(index.vectors[j], vector)
            \/ /\ Distance(index.vectors[i], vector) = Distance(index.vectors[j], vector)
               /\ i < j
        Rank(i) == 1 + Cardinality({j \in 1..n : Closer(j, i)})
    IN [r \in 1..k |-> IF r <= n THEN CHOOSE i \in 1..n : Rank(i) = r ELSE -1]

\* python documents[i] for a faiss position: -1 is the last element
ListItem(docs, i) == IF i = -1 THEN docs[Len(docs)] ELSE docs[i]

RECURSIVE KeepFound(_, _, _)
KeepFound(docs, indices, r) ==
    IF r > Len(indices) THEN <<>>
    ELSE IF indices[r] = -1 THEN KeepFound(docs, indices, r + 1)
         ELSE <<docs[indices[r]]>> \o KeepFound(docs, indices, r + 1)

\* a variant that returns a document for every position, the padding included
SimilaritySearchPadded(index, vector, k) ==
    LET indices == IndexSearch(index, vector, k)
    IN [r \in 1..k |-> IF index.docs = <<>> THEN Record(<<>>, <<>>)
                       ELSE ListItem(index.docs, indices[r])]

\* FAISS.asimilarity_search (embed_store.py 90): the documents of the positions
\* found, the -1 padding skipped
SimilaritySearch(index, vector, k) == KeepFound(index.docs, IndexSearch(index, vector, k), 1)

\* store.py 54-56: k is clamped to ntotal, then every position gives its document
ClampedSearch(index, vector, k) ==
    LET clamped == IF k < NTotal(index) THEN k ELSE NTotal(index)
        indices == IndexSearch(index, vector, clamped)
    IN [r \in 1..clamped |-> ListItem(index.docs, indices[r])]

\* the index after the vectors and documents of a batch were appended
Appended(index, documents) ==
    StIndex(index.vectors \o [i \in 1..Len(documents) |-> Embedding(documents[i].content)],
            index.docs \o documents)

StRecordX == Record(<<"x">>, <<"a.dart">>)
StRecordY == Record(<<"y">>, <<"b.dart">>)
StRecordZ == Record(<<"z">>, <<"c.dart">>)
StBatches == { <<>>, <<StRecordX>>, <<StRecordY, StRecordZ>> }
StQueries == { <<"x">>, <<"z">> }
StoreKinds == {"embed_store", "store"}

StOnly == UNCHANGED <<flowVars, fmtVars, fmVars, kbVars, spVars, auVars>>

Called(op, k, embedded, unembedded, documents, raised, result) ==
    [op |-> op, k |-> k, embedded |-> embedded, unembedded |-> unembedded,
     documents |-> documents, raised |-> raised, result |-> result, before |-> st_index]

\* a KnowledgeBase before or after pre_heat() with its embed_store.py store, or a
\* store.py store that create() has initialized
StInit ==
    /\ st_kind \in StoreKinds
    /\ st_attached \in BOOLEAN
    /\ st_index \in {StNoIndex, StIndex(<<>>, <<>>), Appended(StIndex(<<>>, <<>>), <<StRecordY>>)}
    /\ st_kind = "store" => st_attached /\ st_index = StIndex(<<>>, <<>>)
    /\ ~st_attached => st_index = StNoIndex
    /\ st_calls = 0
    /\ st_last = NoCall
    /\ FlowIdle /\ FmtIdle /\ FmIdle /\ KbIdle /\ SpIdle /\ AuIdle

\* embed_store.py 51-80: StoreBase.add_documents
AddDocuments ==
    /\ st_kind = "embed_store" /\ st_attached
    /\ st_calls < MaxStoreCalls
    /\ st_calls' = st_calls + 1
    /\ \E documents \in StBatches :
       \E unembedded \in {{}} \cup {{i} : i \in 1..Len(documents)} :
         IF documents = <<>>
         THEN /\ st_index' = st_index
              /\ st_last' = Called("add", 0, TRUE, {}, documents, FALSE, <<>>)
         ELSE IF unembedded # {}
         THEN /\ st_index' = st_index
              /\ st_last' = Called("add", 0, FALSE, unembedded, documents, TRUE, <<>>)
         ELSE /\ st_index' = Appended(IF st_index.none THEN StIndex(<<>>, <<>>) ELSE st_index,
                                      documents)
              /\ st_last' = Called("add", 0, TRUE, {}, documents, FALSE, <<>>)
    /\ UNCHANGED <<st_kind, st_attached>>
    /\ StOnly

\* store.py 40-46: StoreBase.add_document
AddDocument ==
    /\ st_kind = "store"
    /\ st_calls < MaxStoreCalls
    /\ st_calls' = st_calls + 1
    /\ \E document \in {StRecordX, StRecordY, StRecordZ}, embedded \in BOOLEAN :
         /\ st_index' = IF embedded THEN Appended(st_index, <<document>>) ELSE st_index
         /\ st_last' = Called("add", 0, embedded, IF embedded THEN {} ELSE {1},
                              <<document>>, FALSE, <<>>)
    /\ UNCHANGED <<st_kind, st_attached>>
    /\ StOnly

\* knowledge_base.py 70-75 and embed_store.py 82-91: KnowledgeBase.search
SearchKnowledgeBase ==
    /\ st_kind = "embed_store"
    /\ st_calls < MaxStoreCalls
    /\ st_calls' = st_calls + 1
    /\ \E query \in StQueries, k \in 1..MaxK, embedded \in BOOLEAN :
         IF ~st_attached \/ st_index.none
         THEN st_last' = Called("search", k, embedded, {}, <<>>, FALSE, <<>>)
         ELSE IF ~embedded
         THEN st_last' = Called("search", k, FALSE, {}, <<>>, TRUE, <<>>)
         ELSE st_last' = Called("search", k, TRUE, {}, <<>>, FALSE,
                                SimilaritySearch(st_index, Embedding(query), k))
    /\ UNCHANGED <<st_kind, st_attached, st_index>>
    /\ StOnly

\* store.py 48-57: StoreBase.search
SearchStore ==
    /\ st_kind = "store"
    /\ st_calls < MaxStoreCalls
    /\ st_calls' = st_calls + 1
    /\ \E query \in StQueries, k \in 1..MaxK, embedded \in BOOLEAN :
         IF embedded /\ NTotal(st_index) > 0
         THEN st_last' = Called("search", k, TRUE, {}, <<>>, FALSE,
                                ClampedSearch(st_index, Embedding(query), k))
         ELSE st_last' = Called("search", k, embedded, {}, <<>>, FALSE, <<>>)
    /\ UNCHANGED <<st_kind, st_attached, st_index>>
    /\ StOnly

StNext ==
    \/ AddDocuments
    \/ AddDocument
    \/ SearchKnowledgeBase
    \/ SearchStore

SpecStore == StInit /\ [][StNext]_vars

(***************************************************************************)
(* What the claims say about the stores.                                   *)
(***************************************************************************)
\* the number of documents indexed when the latest call was made
TotalIndexed == Len(st_last.before.docs)
Smaller(a, b) == IF a < b THEN a ELSE b

\* C12: a search whose query is embedded never raises and returns min(k,
\* totalIndexed) documents: all totalIndexed of them when k is greater.
C12_SearchReturnsMinOfKAndTotal ==
    (st_last.op = "search" /\ st_last.embedded) =>
        /\ ~st_last.raised
        /\ Len(st_last.result) = Smaller(st_last.k, TotalIndexed)
        /\ st_last.k > TotalIndexed => Len(st_last.result) = TotalIndexed
        /\ \A i \in 1..Len(st_last.result) :
              \E j \in 1..TotalIndexed : st_last.result[i] = st_last.before.docs[j]

C12_Witness ==
    /\ st_last.op = "search"
    /\ st_last.embedded
    /\ st_kind = "embed_store"
    /\ TotalIndexed = 2
    /\ st_last.k = 3
    /\ Len(st_last.result) = 2

RECURSIVE Without(_, _, _)
\* the records of a batch whose embedding request did not fail
Without(documents, unembedded, i) ==
    IF i > Len(documents) THEN <<>>
    ELSE IF i \in unembedded THEN Without(documents, unembedded, i + 1)
         ELSE <<documents[i]>> \o Without(documents, unembedded, i + 1)

\* index and document list have the same length and position i of the index is
\* the vector of document i
Aligned(index) ==
    /\ Len(index.vectors) = Len(index.docs)
    /\ \A i \in 1..Len(index.docs) : index.vectors[i] = Embedding(index.docs[i].content)

\* C16: an add skips the records whose embedding request fails without failing: it
\* does not raise, the other records of the batch are added, and index and document
\* list stay position-aligned.
C16_AddSkipsUnembeddedRecords ==
    /\ Aligned(st_index)
    /\ st_last.op = "add" =>
        /\ ~st_last.raised
        /\ st_index.docs = st_last.before.docs
                \o Without(st_last.documents, st_last.unembedded, 1)

\* the same for the store of store.py alone
C16_HoldsForStorePy ==
    st_kind = "store" =>
        /\ Aligned(st_index)
        /\ st_last.op = "add" =>
            /\ ~st_last.raised
            /\ st_index.docs = st_last.before.docs
                    \o Without(st_last.documents, st_last.unembedded, 1)

\* C17: a search returns an empty sequence and does not raise when the store is
\* not set, when nothing is indexed, or when the query embedding fails.
C17_SearchFailsSoft ==
    (st_last.op = "search" /\ (~st_attached \/ TotalIndexed = 0 \/ ~st_last.embedded)) =>
        /\ ~st_last.raised
        /\ st_last.result = <<>>

\* the same while the query embedding succeeds
C17_HoldsWhenQueryIsEmbedded ==
    (st_last.op = "search" /\ st_last.embedded /\ (~st_attached \/ TotalIndexed = 0)) =>
        /\ ~st_last.raised
        /\ st_last.result = <<>>

(***************************************************************************)
(* What the claims say about aborted runs and the user-input file.         *)
(***************************************************************************)
\* the file as the latest invoked step left it
FileAfterLastCall == IF calls = <<>> THEN last.file_before ELSE calls[Len(calls)].file_out
\* the calls of ask_user steps, and the latest of them
AskUserCalls == {n \in 1..Len(calls) : calls[n].step.assistant = "ask_user"}
LatestAskUserCall == CHOOSE n \in AskUserCalls : \A m \in AskUserCalls : m <= n

\* C18: when a run aborts on a missing assistant or method nothing is rolled back:
\* the context is the one the last invoked step left and holds, under every output
\* key, what the latest step writing that key left there; the file is as the last
\* step left it, and if an ask_user step wrote it, it still holds the context as
\* written after the latest such step.
C18_AbortRollsNothingBack ==
    pc = "aborted" =>
        /\ context = ContextAfterLastCall
        /\ \A n \in 1..Len(calls) :
             (DeclaresResult(calls[n].step)
                /\ \A m \in 1..Len(calls) :
                      (m > n /\ DeclaresResult(calls[m].step))
                         => ResultKey(calls[m].step) # ResultKey(calls[n].step))
             => /\ HasKey(context, ResultKey(calls[n].step))
                /\ Get(context, ResultKey(calls[n].step))
                     = Get(calls[n].ctx_out, ResultKey(calls[n].step))
        /\ file = FileAfterLastCall
        /\ (AskUserCalls # {} /\ calls[LatestAskUserCall].save = "ok") =>
                file = [exists |-> TRUE,
                        text |-> JsonDumpIndent4(calls[LatestAskUserCall].ctx_out)]

C18_Witness ==
    /\ pc = "aborted"
    /\ Len(calls) = 1
    /\ calls[1].step.assistant = "ask_user"
    /\ calls[1].save = "ok"
    /\ HasAssistant(sorted_steps[step_index])
    /\ ~HasMethod(sorted_steps[step_index])
    /\ context # ctx_start
    /\ file.text = JsonDumpIndent4(context)
    /\ JsonLoad(file.text).v = context

\* C19: a context entry stored by a step of another assistant than ask_user, under
\* a key the context did not have when the run began, never appears in the file.
C19_OnlyCollectorAnswersOnDisk ==
    \A n \in 1..Len(calls) :
        (/\ calls[n].step.assistant # "ask_user"
         /\ DeclaresResult(calls[n].step)
         /\ ~HasKey(ctx_start, ResultKey(calls[n].step))
         /\ \A m \in AskUserCalls :
               DeclaresResult(calls[m].step)
                  => ResultKey(calls[m].step) # ResultKey(calls[n].step))
        => ~(/\ file.exists
             /\ JsonLoad(file.text).ok
             /\ HasKey(JsonLoad(file.text).v, ResultKey(calls[n].step)))

\* C20: a manager constructed after an earlier one wrote the file starts with the
\* context that was written; a step output of a manager started on a file is
\* merged into the mapping reloaded under its key, keeping the reloaded keys; a
\* missing or unparsable file gives an empty context.
C20_AnswersSurviveRestart ==
    /\ (pc = "constructed" /\ written.some) => context = written.ctx
    /\ (/\ last.kind = "executed"
        /\ DeclaresResult(LastStep)
        /\ BothMappings
        /\ HasKey(ctx_start, ResultKey(LastStep))
        /\ Get(last.ctx_before, ResultKey(LastStep)) = Get(ctx_start, ResultKey(LastStep)))
       => LET reloaded == Get(ctx_start, ResultKey(LastStep))
              now == Get(context, ResultKey(LastStep))
          IN /\ Keys(reloaded) \subseteq Keys(now)
             /\ Keys(last.result) \subseteq Keys(now)
             /\ \A k \in Keys(reloaded) \ Keys(last.result) : Get(now, k) = Get(reloaded, k)
    /\ (pc \in {"idle", "constructed"} /\ (~file.exists \/ ~JsonLoad(file.text).ok))
            => context = EmptyDict

C20_Witness ==
    /\ pc = "constructed"
    /\ written.some
    /\ context = written.ctx
    /\ HasKey(context, kU)
    /\ Get(context, kU) = Dict(<< <<kA, One>>, <<kB, Two>> >>)


-----------------------------------------------------------------------------
(***************************************************************************)
(* Initialisation, saving and loading of the index (embed_store.py).       *)
(***************************************************************************)
\* a populate run is between StoreBase.create() and its end; nothing writes the
\* folder in between
Populating == kb_pc \in {"created", "loading", "splitting"}

\* the index a run started from when the folder was there but did not load
StartedEmpty ==
    /\ kb_store
    /\ kb_index = NoIndex
    /\ Count(kb_index) = 0

\* the step populate takes right after an initialization that found a folder
\* it could not load: the one it takes without a folder
IngestsAsOnFirstRun ==
    (kb_pc = "created" /\ kb_disk.exists /\ ~kb_disk.ok) =>
        /\ kb_index' = NoIndex
        /\ kb_chunks' = <<>>
        /\ kb_pc' = IF kb_sources = <<>> THEN "done" ELSE "loading"
        /\ kb_src' = 1

\* C21: initialization loads the persisted index when the folder exists and
\* loads; when loading fails initialization still completes, with no index and
\* zero documents, and the populate that follows ingests from the sources as it
\* does without a folder.
C21_FailedLoadStartsEmpty ==
    /\ [](/\ (kb_pc = "created" /\ kb_disk.exists /\ kb_disk.ok)
                => kb_index = Index(kb_disk.docs)
          /\ (Populating /\ kb_disk.exists /\ ~kb_disk.ok) => StartedEmpty
          /\ (Populating /\ ~kb_disk.exists) => kb_index = NoIndex)
    /\ [][IngestsAsOnFirstRun]_vars

C21_Witness ==
    /\ kb_disk = BrokenFolder
    /\ kb_run = 1
    /\ kb_pc = "loading"
    /\ kb_src > Len(kb_sources)
    /\ kb_index = NoIndex
    /\ Len(kb_chunks) = 2
    /\ \E n \in 1..Len(kb_log) : kb_log[n].op = "load" /\ kb_log[n].arg.documents # <<>>

\* C22: an I/O failure while saving the index is not raised to the caller: the
\* populate run whose save failed ends normally, with the store it built.
C22_SaveFailureIsNotRaised ==
    (/\ kb_log # <<>>
     /\ kb_log[Len(kb_log)].op = "save"
     /\ kb_pc \in {"done", "raised"})
        => kb_pc = "done"

\* the part that holds: a folder that does not load never makes a run fail at
\* initialization, and a failed save leaves the index built in memory
C22_LoadIsBestEffort ==
    /\ (kb_pc = "raised" /\ kb_log = <<>>) => FALSE
    /\ (/\ kb_log # <<>>
        /\ kb_log[Len(kb_log)].op = "save"
        /\ kb_pc = "raised")
          => /\ ~kb_log[Len(kb_log)].arg
             /\ kb_index = Index(kb_index.docs)
             /\ Count(kb_index) >= Len(kb_chunks)

\* C24: every record a loader returned holds the content of the file at the
\* record's own path.
C24_RecordsAreSelfDescribing ==
    \A n \in 1..Len(kb_log) :
        kb_log[n].op = "load" =>
            LET files == kb_sources[kb_log[n].arg.source].files
                documents == kb_log[n].arg.documents
            IN \A d \in 1..Len(documents) :
                 \E f \in 1..Len(files) :
                    /\ files[f].path = documents[d].path
                    /\ files[f].content = documents[d].content

\* the part that holds: the paths are those of the matching files, in walk order
C24_PathsAreTheFilesPaths ==
    \A n \in 1..Len(kb_log) :
        kb_log[n].op = "load" =>
            LET files == kb_sources[kb_log[n].arg.source].files
                documents == kb_log[n].arg.documents
            IN \A d \in 1..Len(documents) : documents[d].path = files[d].path


-----------------------------------------------------------------------------
(***************************************************************************)
(* The course of one flow run.                                             *)
(***************************************************************************)
\* exactly the first n steps in id order were invoked, once each and in order
InvokedOnceEach(n) ==
    /\ Len(calls) = n
    /\ \A i \in 1..n : calls[i].pos = i /\ calls[i].step = sorted_steps[i]

\* C25: every flow run over a step list ends, unless an assistant call raises,
\* either completed or aborted: completed exactly when every step's assistant and
\* method exist, every step then invoked once; aborted at the first step in id
\* order whose assistant or method is missing, exactly the steps before it then
\* invoked once each.
C25_RunEndsCompletedOrAborted ==
    /\ [](pc = "completed" =>
            /\ Len(sorted_steps) = Len(config_steps)
            /\ FirstUnregistered = Len(sorted_steps) + 1
            /\ InvokedOnceEach(Len(sorted_steps)))
    /\ [](pc = "aborted" =>
            /\ FirstUnregistered <= Len(sorted_steps)
            /\ step_index = FirstUnregistered
            /\ InvokedOnceEach(FirstUnregistered - 1))
    /\ (pc = "running") ~> (pc \in {"completed", "aborted", "raised"})
    /\ [][pc = "raised" => last.kind = "raised"]_vars

C25_Witness ==
    /\ pc = "completed"
    /\ Len(sorted_steps) = 2
    /\ InvokedOnceEach(2)
    /\ calls[1].step # calls[2].step


\* the step's input p is, as a whole, the placeholder of the context key
AsksFor(step, key) ==
    /\ HasKey(step.inputs, kP)
    /\ Get(step.inputs, kP) = Str(Placeholder(key))

\* what the context holds under the key once the value was stored or merged
StoredOrMerged(old_ctx, key, value) ==
    IF HasKey(old_ctx, key) /\ Get(old_ctx, key).t = "dict" /\ value.t = "dict"
    THEN DictUpdate(Get(old_ctx, key), value)
    ELSE value

\* C26: the steps of a run are invoked one after the other, each on the context
\* the step before it left, and its inputs are resolved against that context: an
\* input that is the placeholder of the key the step before stored its return
\* value under is what that step left under the key, which is its return value
\* (merged into the old mapping when both are mappings).
C26_NextStepSeesStoredOutput ==
    /\ calls # <<>> =>
        LET latest == calls[Len(calls)]
        IN latest.inputs = FormatInput(latest.step.inputs, latest.ctx_in)
    /\ \A n \in 1..Len(calls) :
        /\ calls[n].pos = n
        /\ n > 1 =>
            LET before == calls[n - 1]
            IN /\ calls[n].ctx_in = before.ctx_out
               /\ (/\ DeclaresResult(before.step)
                   /\ AsksFor(calls[n].step, ResultKey(before.step)))
                    => /\ HasKey(before.ctx_out, ResultKey(before.step))
                       /\ Get(calls[n].inputs, kP) = Get(before.ctx_out, ResultKey(before.step))
    /\ (last.kind = "executed" /\ DeclaresResult(LastStep)) =>
        /\ calls[Len(calls)].step = LastStep
        /\ calls[Len(calls)].ctx_out = context
        /\ HasKey(context, ResultKey(LastStep))
        /\ Get(context, ResultKey(LastStep))
                = StoredOrMerged(last.ctx_before, ResultKey(LastStep), last.result)

C26_Witness ==
    /\ Len(calls) = 2
    /\ ~HasKey(ctx_start, kU)
    /\ DeclaresResult(calls[1].step)
    /\ ResultKey(calls[1].step) = kU
    /\ Get(calls[1].ctx_out, kU) = Dict(<< <<kB, Two>> >>)
    /\ AsksFor(calls[2].step, kU)
    /\ Get(calls[2].inputs, kP) = Dict(<< <<kB, Two>> >>)


\* a step was invoked and returned in this transition
StepReturned ==
    /\ Len(calls') = Len(calls) + 1
    /\ pc' # "raised"

\* C29: whatever run_flow does on one manager, run after run, every key of the
\* context stays a key of the context; and an invoked step without an outputs
\* mapping, or whose outputs have no "result" entry, leaves the context as it was.
C29_KeysOnlyGrow ==
    [][/\ \A k \in Keys(context) : HasKey(context', k)
       /\ (StepReturned /\ ~DeclaresResult(calls'[Len(calls')].step)) => context' = context
       /\ ~StepReturned => context' = context]_vars

\* a second run on the same manager, started on what the first one stored
C29_Witness ==
    /\ pc = "completed"
    /\ Len(calls) = 2
    /\ HasKey(ctx_start, kU)
    /\ ~DeclaresResult(calls[1].step)
    /\ calls[1].ctx_out = ctx_start
    /\ calls[2].step.has_outputs /\ ~DeclaresResult(calls[2].step)
    /\ context = ctx_start


-----------------------------------------------------------------------------
(***************************************************************************)
(* Searches against the index pre_heat built.                              *)
(***************************************************************************)
\* the index of the store changes in this transition
IndexMutated == kb_index' # kb_index

\* add_documents is called in this transition
AddCalled ==
    \E n \in 1..Len(kb_log') :
        /\ n > Len(kb_log)
        /\ kb_log'[n].op = "add"

\* C27: the index changes only when a store is created (the load) or add_documents
\* runs, and every search on an instance pre_heat returned runs after populate
\* finished: on the index as populate left it, with no add_documents after it.
C27_SearchAfterLastMutation ==
    /\ [][IndexMutated => (kb_pc' = "created" \/ AddCalled)]_vars
    /\ [](\A n \in 1..Len(kb_log) :
            kb_log[n].op = "search" =>
                /\ kb_pc = "done"
                /\ kb_log[n].arg = kb_index
                /\ \A m \in 1..Len(kb_log) : kb_log[m].op \in {"add", "load", "split"} => m < n)

C27_Witness ==
    /\ kb_pc = "done"
    /\ Len(kb_log) >= 3
    /\ kb_log[Len(kb_log)].op = "search"
    /\ kb_log[Len(kb_log) - 1].op = "save"
    /\ Count(kb_log[Len(kb_log)].arg) = 2


-----------------------------------------------------------------------------
(***************************************************************************)
(* split_str_into_logical_chunks (split.py) over LLMApis.split             *)
(* (llm_apis.py).  A file content is a sequence of characters; a response  *)
(* text is given by what a JSON parser and the schema see in it.           *)
(***************************************************************************)
PreviewLength == 120
MaxSplitCalls == 2

\* s[:n]
Truncate(s, n) == IF Len(s) <= n THEN s ELSE Slice(s, 1, n)

\* split.py 59: file_content[:120].replace('\n', ' ') + '...', the replacement
\* being of one character by one character
ReplaceChar(s, old, new) == [i \in 1..Len(s) |-> IF s[i] = old THEN new ELSE s[i]]

ContentPreview(file_content) ==
    ReplaceChar(Truncate(file_content, PreviewLength), "\n", " ") \o <<".", ".", ".">>

\* llm_apis.py 26-35: the chat request of one split
ChatRequest(prompt, file_content, format) ==
    [system |-> prompt, user |-> file_content, format |-> format]

\* split.py 62-63: the request split_str_into_logical_chunks asks for
SplitRequest(file_content) ==
    ChatRequest("PROMPT_TO_READ_DART_FILE", ContentPreview(file_content),
                "DartFileAnalysis.model_json_schema()")

\* a member of a JSON object as the schema sees it: missing, null, a string (for
\* "type": one of the listed literals) or something else
Missing == [state |-> "missing", s |-> <<>>]
Null == [state |-> "null", s |-> <<>>]
Text(s) == [state |-> "str", s |-> s]
Other == [state |-> "other", s |-> <<>>]
UnitJson(name, type, purpose) == [name |-> name, type |-> type, purpose |-> purpose]
NoUnitsKey == [state |-> "missing", items |-> <<>>]
NullUnits == [state |-> "null", items |-> <<>>]
UnitsList(items) == [state |-> "list", items |-> items]
NotAList == [state |-> "other", items |-> <<>>]
Responded(json, file_purpose, logical_units) ==
    [how |-> "responded", json |-> json, file_purpose |-> file_purpose,
     logical_units |-> logical_units]
Failed(how) == [NoReply EXCEPT !.how = how]

\* LogicalUnit (split.py 38-47): name, type and purpose are required and may be
\* null; type is one of the literals
UnitValidates(u) ==
    /\ u.name.state \in {"null", "str"}
    /\ u.type.state \in {"null", "str"}
    /\ u.purpose.state \in {"null", "str"}

\* DartFileAnalysis.model_validate_json (split.py 50-54, 66): file_purpose is a
\* required string, logical_units is required and is null or a list of units
ModelValidateJson(reply) ==
    /\ reply.how = "responded"
    /\ reply.json
    /\ reply.file_purpose.state = "str"
    /\ \/ reply.logical_units.state = "null"
       \/ /\ reply.logical_units.state = "list"
          /\ \A i \in 1..Len(reply.logical_units.items) :
                UnitValidates(reply.logical_units.items[i])

Optional(member) == IF member.state = "str" THEN Present(member.s) ELSE Absent

\* analysis_result.model_dump() (split.py 69)
ModelDump(reply) ==
    IF reply.logical_units.state = "null"
    THEN AnalysisWithoutUnits(reply.file_purpose.s)
    ELSE Analysis(reply.file_purpose.s,
                  [i \in 1..Len(reply.logical_units.items) |->
                      Unit(Optional(reply.logical_units.items[i].name),
                           Optional(reply.logical_units.items[i].type),
                           Optional(reply.logical_units.items[i].purpose))])

\* split.py 66-76: the value returned for a reply
SplitResult(reply) == IF ModelValidateJson(reply) THEN ModelDump(reply) ELSE NoAnalysis

Repeated(c, n) == [i \in 1..n |-> c]
FileContents ==
    { <<>>,
      <<"a">>,
      <<"a", "\n", "b">>,
      Repeated("a", PreviewLength),
      Repeated("a", PreviewLength + 1),
      Repeated("a", PreviewLength) \o <<".", ".", ".">> }

GoodUnit == UnitJson(Text(<<"W">>), Text(<<"class">>), Text(<<"q">>))
Replies ==
    { Responded(FALSE, Missing, NoUnitsKey),
      Responded(TRUE, Text(<<"p">>), UnitsList(<<>>)),
      Responded(TRUE, Text(<<"p">>), UnitsList(<<GoodUnit>>)),
      Responded(TRUE, Text(<<>>), UnitsList(<< UnitJson(Null, Null, Null) >>)),
      Responded(TRUE, Text(<<"p">>), NullUnits),
      Responded(TRUE, Text(<<"p">>), NoUnitsKey),
      Responded(TRUE, Text(<<"p">>), NotAList),
      Responded(TRUE, Missing, UnitsList(<<GoodUnit>>)),
      Responded(TRUE, Null, UnitsList(<<GoodUnit>>)),
      Responded(TRUE, Text(<<"p">>), UnitsList(<< UnitJson(Text(<<"W">>), Other, Text(<<"q">>)) >>)),
      Responded(TRUE, Text(<<"p">>), UnitsList(<< GoodUnit, UnitJson(Missing, Null, Null) >>)) }

SpOnly == UNCHANGED <<flowVars, fmtVars, fmVars, kbVars, stVars, auVars>>

SpInit ==
    /\ sp_client \in BOOLEAN
    /\ sp_content = <<>> /\ sp_pc = "idle" /\ sp_requests = <<>>
    /\ sp_reply = NoReply /\ sp_result = NoAnalysis /\ sp_calls = 0
    /\ FlowIdle /\ FmtIdle /\ FmIdle /\ KbIdle /\ StIdle /\ AuIdle

\* split.py 57-63 with llm_apis.py 20-26: the preview is built and, with a
\* client, the chat request is sent; without one LLMApis.split returns None,
\* which does not validate
SplitStrIntoLogicalChunks(file_content) ==
    /\ sp_pc \in {"idle", "returned"}
    /\ sp_calls < MaxSplitCalls
    /\ sp_calls' = sp_calls + 1
    /\ sp_content' = file_content
    /\ IF sp_client
       THEN /\ sp_requests' = << SplitRequest(file_content) >>
            /\ sp_pc' = "awaiting"
            /\ sp_reply' = NoReply
            /\ sp_result' = NoAnalysis
       ELSE /\ sp_requests' = <<>>
            /\ sp_pc' = "returned"
            /\ sp_reply' = Failed("no_client")
            /\ sp_result' = SplitResult(Failed("no_client"))
    /\ UNCHANGED sp_client
    /\ SpOnly

\* a variant that asks the Gateway again after a failure
GatewayRaisesThenRetry ==
    /\ sp_pc = "awaiting"
    /\ Len(sp_requests) < 2
    /\ sp_requests' = Append(sp_requests, SplitRequest(sp_content))
    /\ UNCHANGED <<sp_client, sp_content, sp_pc, sp_reply, sp_result, sp_calls>>
    /\ SpOnly

\* the chat call raises; split.py 74-76 returns None
GatewayRaises ==
    /\ sp_pc = "awaiting"
    /\ sp_reply' = Failed("gateway_failed")
    /\ sp_result' = SplitResult(Failed("gateway_failed"))
    /\ sp_pc' = "returned"
    /\ UNCHANGED <<sp_client, sp_content, sp_requests, sp_calls>>
    /\ SpOnly

\* the chat call returns a response text; split.py 66-76
GatewayResponds(reply) ==
    /\ sp_pc = "awaiting"
    /\ sp_reply' = reply
    /\ sp_result' = SplitResult(reply)
    /\ sp_pc' = "returned"
    /\ UNCHANGED <<sp_client, sp_content, sp_requests, sp_calls>>
    /\ SpOnly

SpNext ==
    \/ \E file_content \in FileContents : SplitStrIntoLogicalChunks(file_content)
    \/ GatewayRaises
    \/ \E reply \in Replies : GatewayResponds(reply)

SpecSplit == SpInit /\ [][SpNext]_vars

(***************************************************************************)
(* What the claims say about the splitter.                                 *)
(***************************************************************************)
\* the response text is a JSON object that fits the File Analysis schema
FitsSchema(reply) ==
    /\ reply.json
    /\ reply.file_purpose.state = "str"
    /\ reply.logical_units.state \in {"null", "list"}
    /\ \A i \in 1..Len(reply.logical_units.items) :
        LET u == reply.logical_units.items[i]
        IN {u.name.state, u.type.state, u.purpose.state} \subseteq {"null", "str"}

\* C23: split returns null whenever the Gateway call fails or its response does
\* not parse or fit the schema; every call ends by returning; and a call makes at
\* most one request to the Gateway.
C23_SplitFailsSoftWithoutRetry ==
    /\ sp_pc \in {"idle", "awaiting", "returned"}
    /\ Len(sp_requests) <= 1
    /\ sp_pc = "awaiting" => Len(sp_requests) = 1
    /\ sp_pc = "returned" =>
        /\ sp_reply.how \in {"no_client", "gateway_failed", "responded"}
        /\ sp_reply.how # "responded" => sp_result = NoAnalysis
        /\ (sp_reply.how = "responded" /\ ~FitsSchema(sp_reply)) => sp_result = NoAnalysis
        /\ (sp_reply.how = "responded" /\ FitsSchema(sp_reply)) =>
                /\ ~sp_result.failed
                /\ sp_result.file_purpose = sp_reply.file_purpose.s

C23_Witness ==
    /\ sp_pc = "returned"
    /\ sp_calls = 2
    /\ sp_reply.how = "responded"
    /\ sp_reply.json
    /\ sp_reply.file_purpose.state = "str"
    /\ sp_reply.logical_units.state = "list"
    /\ Len(sp_reply.logical_units.items) = 1
    /\ sp_reply.logical_units.items[1].type.state = "other"
    /\ Len(sp_requests) = 1
    /\ sp_result = NoAnalysis

\* C28: the user content of the request split makes is the file content it was
\* given, with the fixed system prompt and the File Analysis schema.
C28_SendsTheFileContent ==
    \A n \in 1..Len(sp_requests) :
        /\ sp_requests[n].user = sp_content
        /\ sp_requests[n].system = "PROMPT_TO_READ_DART_FILE"
        /\ sp_requests[n].format = "DartFileAnalysis.model_json_schema()"

\* what is sent instead: at most the first PreviewLength characters, newlines as
\* spaces, followed by three dots
C28_SendsAPreview ==
    \A n \in 1..Len(sp_requests) :
        LET user == sp_requests[n].user
            kept == Len(user) - 3
        IN /\ kept = IF Len(sp_content) < PreviewLength THEN Len(sp_content) ELSE PreviewLength
           /\ \A i \in 1..kept :
                user[i] = IF sp_content[i] = "\n" THEN " " ELSE sp_content[i]
           /\ Slice(user, kept + 1, kept + 3) = <<".", ".", ".">>
           /\ sp_requests[n].system = "PROMPT_TO_READ_DART_FILE"
           /\ sp_requests[n].format = "DartFileAnalysis.model_json_schema()"


-----------------------------------------------------------------------------
(***************************************************************************)
(* AskUserAssistant.gather_info and collect_parameter                      *)
(* (ask_user_assistant.py).  A parameter is given by its name; a user      *)
(* response by its place among the responses to the parameter.             *)
(***************************************************************************)
MaxResponses == 2

\* AnalysisResult (ask_user_assistant.py 14-22): the status and the value the
\* chain extracted from the response it was given
AnalysisResult(status, response, text) ==
    [status |-> status, value |-> [response |-> response, text |-> text]]

\* a variant that takes any answer for a confirmation
ConfirmsWhateverIsSaid(confirmation) == TRUE

\* ask_user_assistant.py 85-86: input(...).lower() in ['y', 'yes']
Confirms(confirmation) == Lower(confirmation) \in {<<"y">>, <<"y", "e", "s">>}

\* ask_user_assistant.py 79-96: whether the loop returns analysis.value
Returns(analysis, confirmation) ==
    \/ analysis.status = "VALID"
    \/ analysis.status = "NEEDS_CONFIRMATION" /\ Confirms(confirmation)

\* collected_data[name] = value
SetEntry(data, name, value) ==
    IF \E i \in 1..Len(data) : data[i].name = name
    THEN [i \in 1..Len(data) |-> IF data[i].name = name THEN [name |-> name, value |-> value]
                                                     ELSE data[i]]
    ELSE Append(data, [name |-> name, value |-> value])

ParameterLists ==
    { <<>>, <<"project_name">>, <<"project_name", "primary_color">>,
      <<"project_name", "project_name">> }
Statuses == {"VALID", "INVALID", "NEEDS_CONFIRMATION"}
Texts == {"my_project", "#87CEEB"}
Confirmations == { <<"y">>, <<"y", "e", "s">>, <<"Y", "E", "S">>, <<"n", "o">>, <<>> }

AuOnly == UNCHANGED <<flowVars, fmtVars, fmVars, kbVars, stVars, spVars>>

AuInit ==
    /\ au_chain \in BOOLEAN
    /\ au_parameters = <<>> /\ au_pc = "idle" /\ au_param = 1
    /\ au_history = <<>> /\ au_returns = <<>> /\ collected_data = <<>>
    /\ FlowIdle /\ FmtIdle /\ FmIdle /\ KbIdle /\ StIdle /\ SpIdle

\* gather_info (98-106) up to the first analysis: without a chain, or without
\* parameters, it returns at once; else the first parameter's prompt is asked
GatherInfo(parameters) ==
    /\ au_pc = "idle"
    /\ au_parameters' = parameters
    /\ au_pc' = IF au_chain /\ parameters # <<>> THEN "analyzing" ELSE "done"
    /\ au_param' = 1
    /\ au_history' = <<>>
    /\ au_returns' = <<>>
    /\ collected_data' = <<>>
    /\ UNCHANGED au_chain
    /\ AuOnly

\* one turn of collect_parameter's loop (71-96), with the loop of gather_info
\* around it (105-108): the chain analyses the latest response; the value is
\* returned and stored, or the user is asked again
AnalyzeResponse(status, text, confirmation) ==
    /\ au_pc = "analyzing"
    /\ LET user_response == Len(au_history) + 1
           analysis == AnalysisResult(status, user_response, text)
           asked == analysis.status = "NEEDS_CONFIRMATION"
           turn == [analysis |-> analysis, asked |-> asked,
                    confirmation |-> IF asked THEN confirmation ELSE <<>>]
           name == au_parameters[au_param]
       IN /\ asked \/ confirmation = <<>>
          /\ IF Returns(analysis, confirmation)
             THEN /\ au_returns' = Append(au_returns,
                        [name |-> name, value |-> analysis.value,
                         history |-> Append(au_history, turn)])
                  /\ collected_data' = SetEntry(collected_data, name, analysis.value)
                  /\ au_history' = <<>>
                  /\ au_param' = au_param + 1
                  /\ au_pc' = IF au_param = Len(au_parameters) THEN "done" ELSE "analyzing"
             ELSE /\ user_response < MaxResponses
                  /\ au_history' = Append(au_history, turn)
                  /\ UNCHANGED <<au_returns, collected_data, au_param, au_pc>>
    /\ UNCHANGED <<au_chain, au_parameters>>
    /\ AuOnly

\* self.chain.ainvoke raises (73-77): collect_parameter and gather_info end with
\* the exception and return nothing
AnalyzeRaises ==
    /\ au_pc = "analyzing"
    /\ au_pc' = "raised"
    /\ UNCHANGED <<au_chain, au_parameters, au_param, au_history, au_returns, collected_data>>
    /\ AuOnly

AuNext ==
    \/ \E parameters \in ParameterLists : GatherInfo(parameters)
    \/ \E status \in Statuses, text \in Texts, confirmation \in Confirmations :
            AnalyzeResponse(status, text, confirmation)
    \/ AnalyzeRaises

SpecAsk == AuInit /\ [][AuNext]_vars

(***************************************************************************)
(* What the claims say about the collector.                                *)
(***************************************************************************)
\* the user said 'y' or 'yes', in whatever case
SaidYes(turn) ==
    /\ turn.asked
    /\ \/ Len(turn.confirmation) = 1 /\ turn.confirmation[1] \in {"y", "Y"}
       \/ /\ Len(turn.confirmation) = 3
          /\ turn.confirmation[1] \in {"y", "Y"}
          /\ turn.confirmation[2] \in {"e", "E"}
          /\ turn.confirmation[3] \in {"s", "S"}

Accepted(turn) ==
    \/ turn.analysis.status = "VALID"
    \/ turn.analysis.status = "NEEDS_CONFIRMATION" /\ SaidYes(turn)

\* every value collect_parameter returned is the value of the analysis of the
\* latest response, which was accepted, every response before it having been
\* rejected or left unconfirmed and analysed in its turn
ReturnsOnlyAcceptedValues ==
    /\ \A n \in 1..Len(au_returns) :
        LET h == au_returns[n].history
        IN /\ h # <<>>
           /\ Accepted(h[Len(h)])
           /\ au_returns[n].value = h[Len(h)].analysis.value
           /\ au_returns[n].value.response = Len(h)
           /\ \A i \in 1..(Len(h) - 1) :
                ~Accepted(h[i]) /\ h[i].analysis.value.response = i
    /\ \A i \in 1..Len(au_history) : ~Accepted(au_history[i])

Names(parameters) == {parameters[i] : i \in 1..Len(parameters)}

OneEntryPerName ==
    /\ {collected_data[i].name : i \in 1..Len(collected_data)} = Names(au_parameters)
    /\ Len(collected_data) = Cardinality(Names(au_parameters))

\* C30 (as claimed): collect_parameter returns only accepted values, and
\* gather_info returns exactly one entry per requested parameter name.
C30_OneAcceptedValuePerName ==
    /\ ReturnsOnlyAcceptedValues
    /\ au_pc = "done" => OneEntryPerName

\* C30 (amended): collect_parameter returns only accepted values, and gather_info
\* returns exactly one entry per requested parameter name when the assistant's
\* chain was built; when it was not, gather_info asks nothing and returns an
\* empty mapping.
C30_OneAcceptedValuePerNameWithAChain ==
    /\ ReturnsOnlyAcceptedValues
    /\ (au_pc = "done" /\ au_chain) =>
        /\ OneEntryPerName
        /\ \A i \in 1..Len(collected_data) :
             \E n \in 1..Len(au_returns) :
                /\ au_returns[n].name = collected_data[i].name
                /\ au_returns[n].value = collected_data[i].value
    /\ (au_pc = "done" /\ ~au_chain) => (collected_data = <<>> /\ au_returns = <<>>)

C30_Witness ==
    /\ au_pc = "done"
    /\ au_chain
    /\ Len(au_parameters) = 2
    /\ Len(collected_data) = 2
    /\ Len(au_returns[1].history) = 2
    /\ au_returns[1].history[1].analysis.status = "NEEDS_CONFIRMATION"
    /\ au_returns[1].history[1].confirmation = <<"n", "o">>
    /\ au_returns[2].history[1].analysis.status = "NEEDS_CONFIRMATION"
    /\ au_returns[2].history[1].confirmation = <<"Y", "E", "S">>

=============================================================================
